---- MODULE Spec2Model ----
(***************************************************************************)
(* Debate coordinator (vibe/debate/agent.py) driving two tmux-backed CLI   *)
(* sessions through TmuxBackend (vibe/core/llm/backend/tmux.py) and the    *)
(* session adapters (vibe/cli_backends/{claude,gemini}/session.py).        *)
(*                                                                         *)
(* Text is a sequence of tokens.  A token stands for one lexical unit of   *)
(* the captured pane or of a message: a word ("a", "b"), a blank "SP", a   *)
(* newline "NL", the block cursor "CUR", the marker "SHELL"                *)
(* (__SHELL_OUTPUT__:), the trailer "EXIT1" (Command exited with code: 1). *)
(* Optional values (Python None) are <<>> for None and <<v>> for a value.  *)
(***************************************************************************)
EXTENDS Integers, Sequences, FiniteSets, TLC

\* ------------------------------------------------------------------ bounds
MaxMessages == 2
MaxPolls == 2
MaxChain == 2

\* --------------------------------------------------------------- constants
TARGET_CLAUDE == "claude"
TARGET_GEMINI == "gemini"
Targets == {TARGET_CLAUDE, TARGET_GEMINI}
DiffCap == 50
ShellCap == 20

None == <<>>
Some(v) == <<v>>
IsSome(o) == o # <<>>
Val(o) == o[1]

\* -------------------------------------------------------------------- text
Whitespace == {"SP", "NL"}

RECURSIVE RStrip(_, _)
RStrip(s, chars) ==
  IF s # <<>> /\ s[Len(s)] \in chars THEN RStrip(SubSeq(s, 1, Len(s) - 1), chars) ELSE s

RECURSIVE LStrip(_, _)
LStrip(s, chars) ==
  IF s # <<>> /\ s[1] \in chars THEN LStrip(Tail(s), chars) ELSE s

Strip(s) == LStrip(RStrip(s, Whitespace), Whitespace)

\* CleanCursor that leaves the cursor in place
KeepCursor(s) == s

\* content.rstrip(" ▌").rstrip("▌")
CleanCursor(s) == RStrip(RStrip(s, {"SP", "CUR"}), {"CUR"})

\* re.sub(r"__SHELL_OUTPUT__:.*", "", s, flags=re.DOTALL)
RECURSIVE SubShellMarker(_)
SubShellMarker(s) ==
  IF s = <<>> THEN <<>>
  ELSE IF s[1] = "SHELL" THEN <<>>
  ELSE <<s[1]>> \o SubShellMarker(Tail(s))

IsExitTrailer(tok) == tok \in {"EXIT0", "EXIT1"}
ExitCodeOf(tok) == IF tok = "EXIT0" THEN 0 ELSE 1

\* re.sub(r"Command exited with code:\s*\d+", "", s, flags=re.IGNORECASE)
SubExitTrailer(s) == SelectSeq(s, LAMBDA tok : ~IsExitTrailer(tok))

CleanShellMarkers(s) == SubExitTrailer(SubShellMarker(s))

RECURSIVE Join(_, _)
Join(parts, sep) ==
  IF parts = <<>> THEN <<>>
  ELSE IF Len(parts) = 1 THEN parts[1]
  ELSE parts[1] \o sep \o Join(Tail(parts), sep)

\* str.upper() on the words the model passes to it
Upper(word) ==
  CASE word = "claude" -> "CLAUDE"
    [] word = "gemini" -> "GEMINI"
    [] word = "shell" -> "SHELL"
    [] word = "write_file" -> "WRITE_FILE"
    [] OTHER -> word

\* ----------------------------------------------------------------- routing
(* A user message is a sequence of tokens: a whitespace character ("SP",     *)
(* "NL") or a piece of a word; adjacent pieces form one word.  "@gemIni"     *)
(* stands for "@gem" + U+0131 (dotless i) + "ni".                            *)

\* the alternatives of TAG_PATTERN under re.IGNORECASE: the regex engine
\* treats U+0131 as a case variant of "i"
IsTag(word) ==
  word \in {"@cc", "@CC", "@claude", "@g", "@G", "@gemini", "@GEMINI", "@gemIni"}

\* str.lower() on the spellings above; U+0131 is its own lower case
Lower(word) ==
  CASE word = "@CC" -> "@cc"
    [] word = "@G" -> "@g"
    [] word = "@GEMINI" -> "@gemini"
    [] OTHER -> word

\* ROUTING_TAGS.get(tag)
ROUTING_TAGS(tag) ==
  IF tag \in {"@cc", "@claude"} THEN Some(TARGET_CLAUDE)
  ELSE IF tag \in {"@g", "@gemini"} THEN Some(TARGET_GEMINI)
  ELSE None

\* TAG_PATTERN matches the word at position i: (?:^|\s) before, (?=\s|$) after
TagAt(s, i) ==
  /\ IsTag(s[i])
  /\ (i = 1 \/ s[i - 1] \in Whitespace)
  /\ (i = Len(s) \/ s[i + 1] \in Whitespace)

\* TAG_PATTERN.sub("", s): every match goes, with the whitespace character
\* the match starts with
RECURSIVE SubTagsFrom(_, _)
SubTagsFrom(s, i) ==
  IF i > Len(s) THEN <<>>
  ELSE LET removed == \/ TagAt(s, i)
                      \/ (s[i] \in Whitespace /\ i < Len(s) /\ TagAt(s, i + 1))
       IN  (IF removed THEN <<>> ELSE <<s[i]>>) \o SubTagsFrom(s, i + 1)

\* re.sub(r"\s+", " ", s)
RECURSIVE CollapseWhitespace(_)
CollapseWhitespace(s) ==
  IF s = <<>> THEN <<>>
  ELSE IF s[1] \in Whitespace THEN <<"SP">> \o CollapseWhitespace(LStrip(s, Whitespace))
  ELSE <<s[1]>> \o CollapseWhitespace(Tail(s))

parse_routing_tag(text) ==
  IF text = <<>> THEN [target |-> None, clean |-> <<>>]
  ELSE
    LET stripped == Strip(text)
        matches == { i \in 1..Len(stripped) : TagAt(stripped, i) }
        match == CHOOSE i \in matches : \A j \in matches : i <= j
        tag == Lower(stripped[match])
    IN  IF matches = {} THEN [target |-> None, clean |-> stripped]
        ELSE [target |-> ROUTING_TAGS(tag),
              clean |-> Strip(CollapseWhitespace(Strip(SubTagsFrom(stripped, 1))))]

\* calls of route_message: <<user_input, target>>
RouteCalls ==
  { <<<<"hi">>, None>>, <<<<"x@g.io">>, None>>, <<<<"@g", "SP", "hi">>, None>>,
    <<<<"hi", "SP", "@cc">>, None>>, <<<<"hi">>, Some(TARGET_CLAUDE)>>,
    <<<<"hi">>, Some(TARGET_GEMINI)>> }

Message(role, content) == [role |-> role, content |-> content, is_ephemeral |-> FALSE]

_role_to_label(role) ==
  IF role = "user" THEN "USER said"
  ELSE IF role = TARGET_CLAUDE THEN "CLAUDE said"
  ELSE IF role = TARGET_GEMINI THEN "GEMINI said"
  ELSE Upper(role) \o " said"

LastN(s, n) == IF Len(s) > n THEN SubSeq(s, Len(s) - n + 1, Len(s)) ELSE s

\* build_context that starts at the message the target saw last
build_context_from_last_seen(msgs, target, seen, limit) ==
  IF msgs = <<>> THEN <<>>
  ELSE
    LET last_seen_idx == seen[target]
        new_messages == SubSeq(msgs, IF last_seen_idx < 0 THEN 1 ELSE last_seen_idx + 1, Len(msgs))
        capped == LastN(new_messages, limit)
        relevant == SelectSeq(capped, LAMBDA m : ~m.is_ephemeral)
        msg_lines == [i \in 1..Len(relevant) |->
                        <<_role_to_label(relevant[i].role), "SP">> \o relevant[i].content]
    IN  IF relevant = <<>> THEN <<>>
        ELSE <<"[Chat context, reply to last USER message]", "NL">>
               \o Join(msg_lines, <<"NL", "NL">>)

\* last_seen maps each target to the index (0-based) of the last message it saw
build_context(msgs, target, seen, limit) ==
  IF msgs = <<>> THEN <<>>
  ELSE
    LET last_seen_idx == seen[target]
        new_messages == SubSeq(msgs, last_seen_idx + 2, Len(msgs))
        capped == LastN(new_messages, limit)
        relevant == SelectSeq(capped, LAMBDA m : ~m.is_ephemeral)
        msg_lines == [i \in 1..Len(relevant) |->
                        <<_role_to_label(relevant[i].role), "SP">> \o relevant[i].content]
    IN  IF relevant = <<>> THEN <<>>
        ELSE <<"[Chat context, reply to last USER message]", "NL">>
               \o Join(msg_lines, <<"NL", "NL">>)

ContextLimit == 5

\* the log handed to build_context, the current user message included
ContextMessagesWithCurrent(msgs) == msgs

\* self.messages[:-1]: the log without the user message just appended
ContextMessages(msgs) == SubSeq(msgs, 1, Len(msgs) - 1)

BuildPrompt(context, clean_msg) ==
  IF context # <<>> THEN context \o <<"NL", "USER asks", "SP">> \o clean_msg
  ELSE <<"USER asks", "SP">> \o clean_msg

\* ------------------------------------------------------------- tool records
ToolInfo(tool_type, file_path, diff_lines) ==
  [tool_type |-> tool_type, file_path |-> file_path, diff_lines |-> diff_lines,
   exit_code |-> None, shell_output |-> None]

\* confirmation contexts a pane can show: a shell command box, a file-write
\* box with one added line, and the fallback text the adapters return when
\* they find no tool line ("Action pending confirmation")
CtxShell == <<"Shell", "ls">>
CtxWrite == <<"WriteFile", "f", "NL", "+", "hello">>
CtxFallback == <<"Action pending confirmation">>
Contexts == {CtxShell, CtxWrite, CtxFallback}

\* second component of parser.parse(context): the ToolInfo or None
ParseTool(context) ==
  IF context = <<>> THEN None
  ELSE IF context[1] = "Shell" THEN Some(ToolInfo("shell", context[2], <<>>))
  ELSE IF context[1] = "WriteFile"
       THEN Some(ToolInfo("write_file", context[2], << <<context[4], context[5]>> >>))
  ELSE None

RECURSIVE SplitLines(_)
SplitLines(s) ==
  IF s = <<>> THEN << <<>> >>
  ELSE IF s[1] = "NL" THEN << <<>> >> \o SplitLines(Tail(s))
  ELSE LET rest == SplitLines(Tail(s))
       IN  << <<s[1]>> \o rest[1] >> \o Tail(rest)

FirstN(s, n) == IF Len(s) > n THEN SubSeq(s, 1, n) ELSE s

_build_action_context(tool_info, target) ==
  LET header == << "[" \o Upper(target) \o " ACTION: " \o Upper(tool_info.tool_type)
                   \o " " \o tool_info.file_path \o "]" >>
      diff == FirstN(tool_info.diff_lines, DiffCap)
      diff_part == [i \in 1..Len(diff) |->
                      << (IF diff[i][1] \in {"+", "-"} THEN diff[i][1] ELSE " ")
                         \o " " \o diff[i][2] >>]
      diff_more == IF Len(tool_info.diff_lines) > DiffCap THEN << <<"... more lines">> >> ELSE <<>>
      out == IF IsSome(tool_info.shell_output) /\ Val(tool_info.shell_output) # <<>>
             THEN SplitLines(Val(tool_info.shell_output)) ELSE <<>>
      out_part == FirstN(out, ShellCap)
      out_more == IF Len(out) > ShellCap THEN << <<"... more lines">> >> ELSE <<>>
      exit_part == IF IsSome(tool_info.exit_code)
                   THEN << <<"Exit: " \o ToString(Val(tool_info.exit_code))>> >> ELSE <<>>
  IN  Join(<<header>> \o diff_part \o diff_more \o out_part \o out_more \o exit_part, <<"NL">>)

\* -------------------------------------------------------------------- pane
(* A pane is what one capture-pane call returns, reduced to what the        *)
(* adapters read from it: text is the latest reply segment (the text the    *)
(* adapters' _extract_response finds after the last reply marker), bullets  *)
(* the number of reply markers in the capture, status whether the capture   *)
(* shows the confirmation prompt ("confirm"), the ready prompt without a    *)
(* spinner ("ready") or neither ("busy"), ctx the confirmation box, shell   *)
(* the completed shell box of the capture, if any.                          *)
MaxBullets == 2
ReplyA == <<"a">>
ReplyAB == <<"a", "NL", "b">>
ShellBox == [out |-> <<"o">>, code |-> Some(1)]
TimeoutSentinel == <<"TIMEOUT">>

Panes ==
  { [text |-> t, bullets |-> n, status |-> st, ctx |-> c, shell |-> sh] :
      t \in {<<>>, ReplyA, ReplyAB}, n \in 0..MaxBullets,
      st \in {"busy", "confirm", "ready"}, c \in Contexts \cup {<<>>},
      sh \in {None, Some(ShellBox)} }

PaneOk(p) ==
  /\ (p.text = <<>>) = (p.bullets = 0)
  /\ (p.status = "confirm") = (p.ctx # <<>>)
  /\ (IsSome(p.shell) => p.bullets > 0)

ValidPanes == { p \in Panes : PaneOk(p) }

\* captures taken on entry of ask (the idle prompt) and of wait_response (the
\* tool just approved is running); the adapters read only the reply markers
\* and the marker line of them
IdlePanes == { p \in ValidPanes : p.status = "ready" /\ p.shell = None }
RunningPanes == { p \in ValidPanes : p.status = "busy" /\ p.shell = None /\ p.text # ReplyAB }

\* captures ask can take 0.5 s after a capture that showed the ready prompt:
\* the same capture, or one in which the reply has grown
Settled(output) ==
  {output} \cup (IF output.status = "ready" /\ output.text = ReplyA
                 THEN {[output EXCEPT !.text = ReplyAB]} ELSE {})

ExitTok(code) == IF code = 0 THEN "EXIT0" ELSE "EXIT1"

\* line of the capture on which the last reply starts
MarkerLine(p) == IF p.text = <<>> THEN <<>> ELSE SplitLines(p.text)[1]

\* ClaudeSessionTmux._extract_response: content of the last text reply
ClaudeExtractResponse(p) == p.text

\* ClaudeSessionTmux._extract_first_tool_result: (exit_code, shell_output)
ClaudeFirstToolResult(p) ==
  IF IsSome(p.shell)
  THEN [exit_code |-> Val(p.shell).code, shell_output |-> Some(Val(p.shell).out)]
  ELSE [exit_code |-> None, shell_output |-> None]

\* GeminiSessionTmux._extract_response(raw, skip_count)
GeminiExtractResponse(p, skip_count) ==
  LET result == IF p.bullets > skip_count THEN p.text ELSE <<>>
      has_out == IsSome(p.shell) /\ Val(p.shell).out # <<>>
      has_exit == IsSome(p.shell) /\ IsSome(Val(p.shell).code)
      exit_line == <<ExitTok(Val(Val(p.shell).code))>>
      shell_marker == <<"SHELL">> \o Val(p.shell).out
                        \o (IF has_exit THEN <<"NL">> \o exit_line ELSE <<>>)
  IN  IF has_out
      THEN (IF result # <<>> THEN result \o <<"NL">> \o shell_marker ELSE shell_marker)
      ELSE IF has_exit /\ result # <<>> THEN result \o <<"NL">> \o exit_line
      ELSE result

\* all_responses[-1] on an empty list: a negative skip_count passes the
\* length test when the capture holds no reply
GeminiExtractRaises(p, skip_count) == p.bullets = 0 /\ skip_count < 0

\* GeminiToolParser.parse_tool_result(content): (exit_code, shell_output)
RECURSIVE AfterShellMarker(_)
AfterShellMarker(s) ==
  IF s = <<>> THEN <<>>
  ELSE IF s[1] = "SHELL" THEN Tail(s)
  ELSE AfterShellMarker(Tail(s))

RECURSIVE UntilExitTrailer(_)
UntilExitTrailer(s) ==
  IF s = <<>> THEN <<>>
  ELSE IF IsExitTrailer(s[1]) THEN <<>>
  ELSE <<s[1]>> \o UntilExitTrailer(Tail(s))

\* re.search(r"(?:Command exited with code:|Error: Exit code)\s*(\d+)", s)
SearchExitCode(s) ==
  IF SelectSeq(s, IsExitTrailer) # <<>> THEN Some(ExitCodeOf(SelectSeq(s, IsExitTrailer)[1])) ELSE None

\* re.search(r"__SHELL_OUTPUT__:(.+?)(?=Command exited|$)", s, re.DOTALL), stripped
SearchShellOutput(s) ==
  LET body == UntilExitTrailer(AfterShellMarker(s))
  IN  IF SelectSeq(s, LAMBDA tok : tok = "SHELL") # <<>> /\ body # <<>> THEN Some(Strip(body)) ELSE None

parse_tool_result(content) ==
  [exit_code |-> SearchExitCode(content), shell_output |-> SearchShellOutput(content)]

\* ----------------------------------------------------- adapter return values
StrResult(text) == [pytype |-> "str", value |-> text]
NoResult == [pytype |-> "NoneType"]
\* the call did not return: the exception propagates to the caller
Raised(exception) == [pytype |-> exception]

ClaudeConfirmationDict(context, prior_result, prior_exit_code, prior_shell_output) ==
  [pytype |-> "dict", type |-> "confirmation", context |-> context,
   prior_result |-> prior_result, prior_exit_code |-> prior_exit_code,
   prior_shell_output |-> prior_shell_output]

ClaudeResponseDict(content, exit_code, shell_output) ==
  [pytype |-> "dict", type |-> "response", content |-> content,
   exit_code |-> exit_code, shell_output |-> shell_output]

ParsedConfirmation(context, prior_result, prior_exit_code, prior_shell_output) ==
  [pytype |-> "ParsedConfirmation", context |-> context,
   prior_result |-> prior_result, prior_exit_code |-> prior_exit_code,
   prior_shell_output |-> prior_shell_output]

ParsedResponse(content, exit_code, shell_output) ==
  [pytype |-> "ParsedResponse", content |-> content,
   exit_code |-> exit_code, shell_output |-> shell_output]

\* ------------------------------------------------------ adapter polling loop
IdleWorker ==
  [pc |-> "idle", backend |-> TARGET_CLAUDE, polls |-> 0, last_output |-> None,
   last_marker_line |-> <<>>, last_marker_count |-> 0, responses_before |-> 0,
   result |-> NoResult]

\* state of ask() when it enters its polling loop; before is the capture taken
\* before the prompt is pasted
AskStart(backend, before) ==
  [pc |-> "polling", backend |-> backend, polls |-> 0, last_output |-> None,
   last_marker_line |-> IF backend = TARGET_CLAUDE THEN MarkerLine(before) ELSE <<>>,
   last_marker_count |-> IF backend = TARGET_CLAUDE THEN before.bullets ELSE 0,
   responses_before |-> IF backend = TARGET_GEMINI THEN before.bullets ELSE 0,
   result |-> NoResult]

\* ask returns result: its locals are gone, run_ask holds the return value
AskReturn(w, result) == [IdleWorker EXCEPT !.pc = "done", !.backend = w.backend, !.result = result]

\* One iteration of ClaudeSessionTmux.ask's loop with on_update given: output is
\* this poll's capture, final the capture taken after the 0.5 s settle.
\* put is the text handed to on_update, if any.
ClaudeAskPoll(w, output, final) ==
  IF w.last_output = Some(output)
  THEN [w |-> [w EXCEPT !.polls = @ + 1], put |-> None, parsed |-> FALSE]
  ELSE
    LET partial == ClaudeExtractResponse(output)
        current_marker_line == MarkerLine(output)
        current_marker_count == output.bullets
        is_new_message == \/ current_marker_line # w.last_marker_line
                          \/ current_marker_count > w.last_marker_count
        will_stream == partial # <<>> /\ is_new_message
        w1 == [w EXCEPT !.polls = @ + 1,
                        !.last_output = Some(output),
                        !.last_marker_line = IF will_stream THEN current_marker_line ELSE @,
                        !.last_marker_count = IF will_stream THEN current_marker_count ELSE @]
        result == IF output.status = "confirm"
                  THEN ClaudeConfirmationDict(output.ctx, <<>>, None, None)
                  ELSE IF output.status = "ready"
                  THEN StrResult(ClaudeExtractResponse(final))
                  ELSE NoResult
    IN  [w |-> IF result = NoResult THEN w1 ELSE AskReturn(w, result),
         put |-> IF will_stream THEN Some(partial \o <<"SP", "CUR">>) ELSE None,
         parsed |-> TRUE]

\* GeminiAskPoll without the test of the cached capture
GeminiAskPollNoCache(w, output, final) ==
  LET partial == GeminiExtractResponse(output, w.responses_before)
      responses_now == output.bullets
      result == IF output.status = "confirm"
                THEN ParsedConfirmation(output.ctx, None, None, None)
                ELSE IF responses_now > w.responses_before /\ output.status = "ready"
                THEN StrResult(GeminiExtractResponse(final, w.responses_before))
                ELSE NoResult
  IN  [w |-> IF result = NoResult
             THEN [w EXCEPT !.polls = @ + 1, !.last_output = Some(output)]
             ELSE AskReturn(w, result),
       put |-> Some(partial \o <<"SP", "CUR">>),
       parsed |-> TRUE]

\* One iteration of GeminiSessionTmux.ask's loop with on_update given; parsed
\* tells whether the iteration called _extract_response
GeminiAskPoll(w, output, final) ==
  IF w.last_output = Some(output)
  THEN [w |-> [w EXCEPT !.polls = @ + 1], put |-> None, parsed |-> FALSE]
  ELSE
    LET partial == GeminiExtractResponse(output, w.responses_before)
        responses_now == output.bullets
        result == IF output.status = "confirm"
                  THEN ParsedConfirmation(output.ctx, None, None, None)
                  ELSE IF responses_now > w.responses_before /\ output.status = "ready"
                  THEN StrResult(GeminiExtractResponse(final, w.responses_before))
                  ELSE NoResult
    IN  [w |-> IF result = NoResult
               THEN [w EXCEPT !.polls = @ + 1, !.last_output = Some(output)]
               ELSE AskReturn(w, result),
         put |-> Some(partial \o <<"SP", "CUR">>),
         parsed |-> TRUE]

AskPoll(w, output, final) ==
  IF w.backend = TARGET_CLAUDE THEN ClaudeAskPoll(w, output, final)
  ELSE GeminiAskPoll(w, output, final)

\* wait_response() as the coordinator calls it (no on_update): the call returns
\* at the first capture that shows a confirmation or the ready prompt; this is
\* its return value for that capture.  before is the capture wait_response
\* takes on entry (Gemini only).
ClaudeWaitResponse(output) ==
  IF output.status = "confirm"
  THEN LET prior_result == ClaudeExtractResponse(output)
           tool == ClaudeFirstToolResult(output)
       IN  ClaudeConfirmationDict(output.ctx, prior_result,
             IF prior_result = <<>> THEN tool.exit_code ELSE None,
             IF prior_result = <<>> THEN tool.shell_output ELSE None)
  ELSE LET tool == ClaudeFirstToolResult(output)
       IN  ClaudeResponseDict(ClaudeExtractResponse(output), tool.exit_code, tool.shell_output)

GeminiWaitResponse(before, output) ==
  LET responses_before == before.bullets
      extracted == GeminiExtractResponse(output, responses_before - 1)
      tool == parse_tool_result(extracted)
  IN  IF GeminiExtractRaises(output, responses_before - 1) THEN Raised("IndexError")
      ELSE IF output.status = "confirm"
      THEN ParsedConfirmation(output.ctx,
             IF extracted # <<>> THEN Some(ParsedResponse(extracted, None, None)) ELSE None,
             IF extracted # <<>> THEN tool.exit_code ELSE None,
             IF extracted # <<>> THEN tool.shell_output ELSE None)
      ELSE ParsedResponse(Strip(SubShellMarker(extracted)), tool.exit_code, tool.shell_output)

WaitTimeout(backend) ==
  IF backend = TARGET_CLAUDE THEN ClaudeResponseDict(TimeoutSentinel, None, None)
  ELSE ParsedResponse(TimeoutSentinel, None, None)

WaitResponse(backend, before, output) ==
  IF backend = TARGET_CLAUDE THEN ClaudeWaitResponse(output)
  ELSE GeminiWaitResponse(before, output)

\* state of wait_response() when it enters its polling loop; before is the
\* capture Gemini's wait_response takes on entry
WaitStart(backend, before) ==
  [pc |-> "polling", backend |-> backend, polls |-> 0, last_output |-> None,
   last_marker_line |-> <<>>, last_marker_count |-> 0, last_partial |-> <<>>,
   responses_before |-> IF backend = TARGET_GEMINI THEN before.bullets ELSE 0,
   result |-> NoResult]

WaitReturn(w, result) ==
  [WaitStart(w.backend, [bullets |-> 0]) EXCEPT !.pc = "done", !.result = result]

\* One iteration of ClaudeSessionTmux.wait_response's loop with on_update given
ClaudeWaitPoll(w, output) ==
  IF w.last_output = Some(output)
  THEN [w |-> [w EXCEPT !.polls = @ + 1], put |-> None, parsed |-> FALSE]
  ELSE
    LET partial == ClaudeExtractResponse(output)
        current_marker_line == MarkerLine(output)
        current_marker_count == output.bullets
        is_new_message == \/ current_marker_line # w.last_marker_line
                          \/ current_marker_count > w.last_marker_count
        will_stream == partial # <<>> /\ is_new_message
        w1 == [w EXCEPT !.polls = @ + 1,
                        !.last_output = Some(output),
                        !.last_marker_line = IF will_stream THEN current_marker_line ELSE @,
                        !.last_marker_count = IF will_stream THEN current_marker_count ELSE @]
    IN  [w |-> IF output.status \in {"confirm", "ready"}
               THEN WaitReturn(w, ClaudeWaitResponse(output)) ELSE w1,
         put |-> IF will_stream THEN Some(partial \o <<"SP", "CUR">>) ELSE None,
         parsed |-> TRUE]

\* One iteration of GeminiSessionTmux.wait_response's loop with on_update
\* given; before is the capture taken on entry
GeminiWaitPoll(w, before, output) ==
  IF w.last_output = Some(output)
  THEN [w |-> [w EXCEPT !.polls = @ + 1], put |-> None, parsed |-> FALSE]
  ELSE IF GeminiExtractRaises(output, w.responses_before - 1)
  THEN [w |-> WaitReturn(w, Raised("IndexError")), put |-> None, parsed |-> TRUE]
  ELSE
    LET partial == GeminiExtractResponse(output, w.responses_before - 1)
        will_stream == partial # <<>> /\ partial # w.last_partial
        w1 == [w EXCEPT !.polls = @ + 1,
                        !.last_output = Some(output),
                        !.last_partial = IF will_stream THEN partial ELSE @]
    IN  [w |-> IF output.status \in {"confirm", "ready"}
               THEN WaitReturn(w, GeminiWaitResponse(before, output)) ELSE w1,
         put |-> IF will_stream THEN Some(partial \o <<"SP", "CUR">>) ELSE None,
         parsed |-> TRUE]

\* ------------------------------------------------------------------- state
VARIABLES
  messages,              \* DebateAgent.messages
  last_seen,             \* DebateAgent.last_seen
  pending_confirmation,  \* DebateAgent._pending_confirmation
  pending_tool_info,     \* DebateAgent._pending_tool_info
  action_contexts,       \* DebateAgent._action_contexts
  backends,              \* DebateAgent._claude_backend / _gemini_backend: "up" or "none"
  turn,                  \* the route_message call in progress
  worker,                \* the thread running session.ask for that call
  queue,                 \* the asyncio.Queue of complete_streaming
  events,                \* events yielded by the current or last coordinator call
  call,                  \* the current or last coordinator call and the state it started from
  chain,                 \* approvals and tool events of the current user turn
  backend_errors,        \* DebateAgent._backend_errors
  parked,                \* a second task's route_message call, suspended at an await
  approval,              \* the app's approval channel (_pending_approval and its messages)
  poll,                  \* one adapter call run with an on_update callback
  probe,                 \* one call of a function of the routing or parser modules
  stream,                \* one complete_streaming call on the event loop
  history                \* a ConversationHistory object

vars == <<messages, last_seen, pending_confirmation, pending_tool_info, action_contexts,
          backends, turn, worker, queue, events, call, chain,
          backend_errors, parked, approval, poll, probe, stream, history>>

\* state outside the coordinator call that is running
restVars == <<backend_errors, parked, approval, poll, probe, stream, history>>

agentVars == <<messages, last_seen, pending_confirmation, pending_tool_info, action_contexts>>

Snapshot ==
  [messages |-> messages, last_seen |-> last_seen,
   pending_confirmation |-> pending_confirmation,
   pending_tool_info |-> pending_tool_info, action_contexts |-> action_contexts]

IdleTurn == [pc |-> "idle", target |-> TARGET_CLAUDE, full_response |-> <<>>]

\* adapter: the adapter methods the call invoked; result: what the last of them returned
Call(op, outcome, target, adapter, result) ==
  [op |-> op, outcome |-> outcome, target |-> target, pre |-> Snapshot,
   adapter |-> adapter, result |-> result]

AssistantEvent(content) == [type |-> "AssistantEvent", content |-> content]
CLIToolResultEvent(tool_info) == [type |-> "CLIToolResultEvent", tool_info |-> tool_info]

TextChunk(text) == [kind |-> "text", text |-> text]
EndOfStream == [kind |-> "end", text |-> <<>>]

\* the frame of a task that runs no coordinator call
IdleFrame ==
  [turn |-> IdleTurn, worker |-> IdleWorker, queue |-> <<>>, events |-> <<>>,
   call |-> [op |-> "init", outcome |-> "returned", target |-> None,
             pre |-> [messages |-> <<>>, last_seen |-> [t \in Targets |-> -1],
                      pending_confirmation |-> None, pending_tool_info |-> None,
                      action_contexts |-> <<>>],
             adapter |-> <<>>, result |-> NoResult]]

\* route_message calls of other tasks that are suspended in their stream
OtherTurns == IF parked.turn.pc = "idle" THEN 0 ELSE 1

\* The approval channel of the app.  pending is _pending_approval (None or a
\* Future, with its result once set), dialog the request whose ApprovalApp is
\* mounted, inbox the ApprovalGranted / ApprovalRejected messages posted and
\* not yet handled, waiter the request _handle_ai_confirmation awaits.
\* requests numbers the requests and decided logs, for each request resumed,
\* the decision it got and the request whose dialog posted that decision.
IdleApproval ==
  [pending |-> None, dialog |-> None, inbox |-> <<>>, waiter |-> None,
   requests |-> 0, decided |-> <<>>]

\* An adapter call observed poll by poll: w are the locals of the call, before
\* the capture it took on entry, capture the screen of its last poll and prev
\* the screen of the poll before that, parsed and put what the last poll did
\* (called _extract_response, handed a text to on_update), deadline whether
\* the call ended because its deadline expired.
IdlePoll ==
  [pc |-> "idle", method |-> "ask", w |-> IdleWorker, before |-> None,
   prev |-> None, capture |-> None, parsed |-> FALSE, put |-> None, deadline |-> FALSE]

\* complete_streaming on the event loop.  thread is the to_thread call of
\* session.ask, sent the texts it handed to on_update, result its return
\* value; ready the loop's queue of callbacks and ntodo how many of them the
\* running iteration still has to run; q the asyncio.Queue; inner the task
\* wait_for runs queue.get in, cancel whether it was told to cancel, item what
\* it returned, done_cb the waiter its done callback releases; waiter the
\* future the generator awaits, timer the call_later handle of wait_for;
\* task_done whether run_ask has finished; pc where the generator stands and
\* yielded the chunks it has yielded.
IdleStream ==
  [thread |-> "idle", sent |-> <<>>, result |-> NoResult, ready |-> <<>>, ntodo |-> 0,
   q |-> <<>>, inner |-> "none", cancel |-> FALSE, item |-> None, done_cb |-> -1,
   waiter |-> [id |-> 0, done |-> FALSE], timer |-> "off", task_done |-> FALSE,
   pc |-> "idle", yielded |-> <<>>]

\* a ConversationHistory not constructed yet; op is the method called last
NoHistory ==
  [op |-> "none", max_messages |-> 0, messages |-> <<>>,
   last_seen |-> [ai \in Targets |-> -1]]

\* A call of a pure function: its name, its arguments and what it returned
IdleProbe == [fn |-> "none", args |-> <<>>, out |-> <<>>]

\* DebateAgent.__init__ followed by an __aenter__ in which both sessions started
Init ==
  /\ messages = <<>>
  /\ last_seen = [t \in Targets |-> -1]
  /\ pending_confirmation = None
  /\ pending_tool_info = None
  /\ action_contexts = <<>>
  /\ backends = [t \in Targets |-> "up"]
  /\ turn = IdleTurn
  /\ worker = IdleWorker
  /\ queue = <<>>
  /\ events = <<>>
  /\ call = Call("init", "returned", None, <<>>, NoResult)
  /\ chain = [approved |-> 0, tool_events |-> 0]
  /\ backend_errors = [t \in Targets |-> None]
  /\ parked = IdleFrame
  /\ approval = IdleApproval
  /\ poll = IdlePoll
  /\ probe = IdleProbe
  /\ stream = IdleStream
  /\ history = NoHistory

\* ---------------------------------------------------------- route_message
\* RouteNoTarget with the user message logged before the target is resolved
RouteNoTargetLogsUser(user_input, target_arg) ==
  /\ turn.pc = "idle"
  /\ target_arg = None
  /\ parse_routing_tag(user_input).target = None
  /\ Len(messages) < MaxMessages
  /\ messages' = Append(messages, Message("user", parse_routing_tag(user_input).clean))
  /\ call' = Call("route_message", "no_target", None, <<>>, NoResult)
  /\ events' = <<>>
  /\ UNCHANGED <<last_seen, pending_confirmation, pending_tool_info, action_contexts,
                 backends, restVars, turn, worker, queue, chain>>

\* route_message(user_input, target=None) with no routing tag in user_input
RouteNoTarget(user_input, target_arg) ==
  /\ turn.pc = "idle"
  /\ target_arg = None
  /\ parse_routing_tag(user_input).target = None
  /\ call' = Call("route_message", "no_target", None, <<>>, NoResult)
  /\ events' = <<>>
  /\ UNCHANGED <<agentVars, backends, restVars, turn, worker, queue, chain>>

\* route_message up to its first suspension inside backend.complete_streaming:
\* the user message is logged, the prompt built and session.ask started; before
\* is the capture ask takes before it pastes the prompt
RouteStartWithin(max_messages, user_input, target_arg, before) ==
  LET parsed == parse_routing_tag(user_input)
      target_opt == IF target_arg = None THEN parsed.target ELSE target_arg
      target == Val(target_opt)
      clean_msg == parsed.clean
      context == build_context(ContextMessages(Append(messages, Message("user", clean_msg))),
                               target, last_seen, ContextLimit)
      prompt == BuildPrompt(context, clean_msg)
  IN  /\ turn.pc = "idle"
      /\ target_opt # None
      /\ Len(messages) + 2 <= max_messages + OtherTurns
      /\ messages' = Append(messages, Message("user", clean_msg))
      /\ events' = <<>>
      /\ chain' = [approved |-> 0, tool_events |-> 0]
      /\ IF backends[target] # "up"
         THEN /\ call' = Call("route_message", "raised", target_opt, <<>>, NoResult)
              /\ UNCHANGED <<turn, worker, queue>>
         ELSE /\ call' = Call("route_message", "running", target_opt,
                              <<[backend |-> target, fn |-> "ask", arg |-> prompt]>>, NoResult)
              /\ turn' = [pc |-> "streaming", target |-> target, full_response |-> <<>>]
              /\ worker' = AskStart(target, before)
              /\ queue' = <<>>
      /\ UNCHANGED <<last_seen, pending_confirmation, pending_tool_info, action_contexts,
                     backends, restVars>>

RouteStart(user_input, target_arg, before) ==
  RouteStartWithin(MaxMessages, user_input, target_arg, before)

\* one iteration of the polling loop of session.ask on the worker thread
WorkerPoll(output, final) ==
  /\ worker.pc = "polling"
  /\ worker.polls < MaxPolls
  /\ LET r == AskPoll(worker, output, final)
         done == r.w.pc = "done"
     IN  /\ worker' = r.w
         /\ queue' = queue \o (IF IsSome(r.put) THEN <<TextChunk(Val(r.put))>> ELSE <<>>)
                           \o (IF done THEN <<EndOfStream>> ELSE <<>>)
  /\ UNCHANGED <<agentVars, backends, restVars, turn, events, call, chain>>

\* the deadline of session.ask expires
WorkerTimeout ==
  /\ worker.pc = "polling"
  /\ worker.polls >= MaxPolls
  /\ worker' = AskReturn(worker, StrResult(TimeoutSentinel))
  /\ queue' = Append(queue, EndOfStream)
  /\ UNCHANGED <<agentVars, backends, restVars, turn, events, call, chain>>

\* complete_streaming yields a text chunk and route_message's loop body runs on it
StreamChunk ==
  /\ turn.pc = "streaming"
  /\ queue # <<>>
  /\ Head(queue).kind = "text"
  /\ LET content == Head(queue).text
         clean_content == CleanCursor(content)
         clean_full == CleanCursor(turn.full_response)
         accepted == clean_content # <<>> /\ clean_content # clean_full
         shown == CleanShellMarkers(clean_content)
     IN  /\ turn' = [turn EXCEPT !.full_response = IF accepted THEN content ELSE @]
         /\ events' = IF accepted /\ Strip(shown) # <<>>
                      THEN Append(events, AssistantEvent(shown)) ELSE events
  /\ queue' = Tail(queue)
  /\ UNCHANGED <<agentVars, backends, restVars, worker, call, chain>>

\* the terminal chunk complete_streaming builds from ask's return value
TerminalChunk(final_result) ==
  IF final_result.pytype = "ParsedConfirmation"
  THEN [finish_reason |-> "confirmation", content |-> final_result.context]
  ELSE [finish_reason |-> "stop", content |-> <<>>]

\* history text route_message stores for the streamed reply
CleanResponse(full_response) ==
  Strip(RStrip(CleanShellMarkers(full_response), {"SP", "CUR"}))

\* HistoryAfterStream with the confirmation branch falling out of the loop
\* instead of returning
HistoryAfterStreamNoReturn(finish_reason, target, full_response, msgs, seen) ==
  LET clean_response == CleanResponse(full_response)
      logged == IF clean_response # <<>>
                THEN Append(msgs, Message(target, clean_response)) ELSE msgs
  IN  IF full_response # <<>>
      THEN [messages |-> logged, last_seen |-> [seen EXCEPT ![target] = Len(logged) - 1]]
      ELSE [messages |-> msgs, last_seen |-> seen]

\* HistoryAfterStream with the index of the reply computed from the length of
\* the log when the call started
HistoryAfterStreamStaleIndex(finish_reason, target, full_response, msgs, seen) ==
  LET clean_response == CleanResponse(full_response)
      logged == IF clean_response # <<>>
                THEN Append(msgs, Message(target, clean_response)) ELSE msgs
  IN  IF finish_reason = "confirmation" THEN [messages |-> msgs, last_seen |-> seen]
      ELSE IF full_response # <<>>
      THEN [messages |-> logged,
            last_seen |-> [seen EXCEPT ![target] = Len(call.pre.messages) + 1]]
      ELSE [messages |-> msgs, last_seen |-> seen]

\* HistoryAfterStream with the reply stored over the last entry of the log
HistoryAfterStreamOverwrites(finish_reason, target, full_response, msgs, seen) ==
  LET clean_response == CleanResponse(full_response)
      logged == IF clean_response # <<>> /\ msgs # <<>>
                THEN [msgs EXCEPT ![Len(msgs)] = Message(target, clean_response)] ELSE msgs
  IN  IF finish_reason = "confirmation" THEN [messages |-> msgs, last_seen |-> seen]
      ELSE IF full_response # <<>>
      THEN [messages |-> logged, last_seen |-> [seen EXCEPT ![target] = Len(logged) - 1]]
      ELSE [messages |-> msgs, last_seen |-> seen]

\* messages and last_seen when route_message returns: untouched after a
\* confirmation chunk (the return inside the loop), the history update after
\* the loop otherwise
HistoryAfterStream(finish_reason, target, full_response, msgs, seen) ==
  LET clean_response == CleanResponse(full_response)
      logged == IF clean_response # <<>>
                THEN Append(msgs, Message(target, clean_response)) ELSE msgs
  IN  IF finish_reason = "confirmation" THEN [messages |-> msgs, last_seen |-> seen]
      ELSE IF full_response # <<>>
      THEN [messages |-> logged, last_seen |-> [seen EXCEPT ![target] = Len(logged) - 1]]
      ELSE [messages |-> msgs, last_seen |-> seen]

\* complete_streaming sees the end of the stream, yields the terminal chunk,
\* and route_message runs to its return
RouteFinish ==
  /\ turn.pc = "streaming"
  /\ queue # <<>>
  /\ Head(queue).kind = "end"
  /\ LET target == turn.target
         chunk == TerminalChunk(worker.result)
         after == HistoryAfterStream(chunk.finish_reason, target, turn.full_response,
                                       messages, last_seen)
     IN  /\ messages' = after.messages
         /\ last_seen' = after.last_seen
         /\ IF chunk.finish_reason = "confirmation"
            THEN /\ pending_tool_info' = IF chunk.content # <<>> THEN ParseTool(chunk.content)
                                         ELSE pending_tool_info
                 /\ pending_confirmation' = Some([target |-> target, context |-> chunk.content])
                 /\ call' = [call EXCEPT !.outcome = "confirmation", !.result = worker.result]
            ELSE /\ call' = [call EXCEPT !.outcome = "stop", !.result = worker.result]
                 /\ UNCHANGED <<pending_confirmation, pending_tool_info>>
  /\ turn' = [turn EXCEPT !.pc = "idle"]
  /\ queue' = Tail(queue)
  /\ worker' = IdleWorker
  /\ UNCHANGED <<action_contexts, backends, restVars, events, chain>>

\* ------------------------------------------------------ handle_confirmation
IsShell(tool_opt) == IsSome(tool_opt) /\ Val(tool_opt).tool_type = "shell"

IsDictOfType(result, type) == result.pytype = "dict" /\ result.type = type

\* lines 317-342: content of the result and the back-filled pending tool
ResponseContent(result) ==
  IF IsDictOfType(result, "response") THEN result.content
  ELSE IF result.pytype = "str" THEN result.value
  ELSE <<>>

BackfillFromResponse(tool_opt, result) ==
  IF ~IsShell(tool_opt) THEN tool_opt
  ELSE IF IsDictOfType(result, "response")
  THEN Some([Val(tool_opt) EXCEPT
         !.exit_code = IF IsSome(result.exit_code) THEN result.exit_code ELSE @,
         !.shell_output = IF IsSome(result.shell_output) THEN result.shell_output ELSE @])
  ELSE IF result.pytype = "str"
  THEN Some([Val(tool_opt) EXCEPT
         !.exit_code = IF IsSome(SearchExitCode(result.value))
                       THEN SearchExitCode(result.value) ELSE @,
         !.shell_output = IF IsSome(SearchShellOutput(result.value))
                          THEN SearchShellOutput(result.value) ELSE @])
  ELSE tool_opt

\* lines 346-387: the pending tool back-filled from the prior_* fields
BackfillFromPrior(tool_opt, result) ==
  IF ~IsShell(tool_opt) THEN tool_opt
  ELSE
    LET t0 == Val(tool_opt)
        t1 == [t0 EXCEPT
                 !.exit_code = IF IsSome(result.prior_exit_code)
                               THEN result.prior_exit_code ELSE @,
                 !.shell_output = IF IsSome(result.prior_shell_output)
                                  THEN result.prior_shell_output ELSE @]
        prior_result == result.prior_result
        exit_match == SearchExitCode(prior_result)
        output_match == SearchShellOutput(prior_result)
        clean_output == Strip(SubExitTrailer(prior_result))
        t2 == [t1 EXCEPT !.exit_code = IF IsSome(exit_match) THEN exit_match ELSE @]
        t3 == [t2 EXCEPT
                 !.shell_output =
                   IF IsSome(output_match) THEN output_match
                   ELSE IF (~IsSome(t1.shell_output) \/ Val(t1.shell_output) = <<>>)
                           /\ clean_output # <<>>
                   THEN Some(clean_output) ELSE @]
    IN  IF prior_result # <<>> /\ ~IsSome(t1.exit_code) THEN Some(t3) ELSE Some(t1)

AnotherConfirmationNotice == <<"[Another confirmation required]">>

ContextsKeptAfterFlush(contexts) == contexts

\* the buffer after the terminal branch has joined it into the history content
ContextsAfterFlush(contexts) == IF contexts # <<>> THEN <<>> ELSE contexts

\* handle_confirmation from the return of wait_response to its own return:
\* the agent fields and events it produces
AfterWaitResponse(target, result) ==
  LET tool0 == BackfillFromResponse(pending_tool_info, result)
      content0 == ResponseContent(result)
  IN  IF result.pytype = "IndexError"
      THEN [outcome |-> "raised", messages |-> messages, last_seen |-> last_seen,
            action_contexts |-> action_contexts, pending_confirmation |-> None,
            pending_tool_info |-> pending_tool_info, events |-> <<>>]
      ELSE IF IsDictOfType(result, "confirmation")
      THEN
        LET tool1 == BackfillFromPrior(tool0, result)
        IN  [outcome |-> "chained",
             messages |-> messages,
             last_seen |-> last_seen,
             action_contexts |->
               IF IsSome(tool1)
               THEN Append(action_contexts, _build_action_context(Val(tool1), target))
               ELSE action_contexts,
             pending_confirmation |-> Some([target |-> target, context |-> result.context]),
             pending_tool_info |-> ParseTool(result.context),
             events |-> (IF IsSome(tool1) THEN <<CLIToolResultEvent(Val(tool1))>> ELSE <<>>)
                          \o <<AssistantEvent(AnotherConfirmationNotice)>>]
      ELSE
        LET content == IF content0 # <<>> THEN Strip(CleanShellMarkers(content0)) ELSE content0
            contexts == IF IsSome(tool0)
                        THEN Append(action_contexts, _build_action_context(Val(tool0), target))
                        ELSE action_contexts
            actions_text == Join(contexts, <<"NL", "NL">>)
            history_content ==
              IF contexts # <<>>
              THEN (IF content # <<>> THEN content \o <<"NL", "NL">> \o actions_text
                    ELSE actions_text)
              ELSE content
            logged == IF history_content # <<>>
                      THEN Append(messages, Message(target, history_content)) ELSE messages
        IN  [outcome |-> "terminal",
             messages |-> logged,
             last_seen |-> IF history_content # <<>>
                           THEN [last_seen EXCEPT ![target] = Len(logged) - 1]
                           ELSE last_seen,
             action_contexts |-> ContextsAfterFlush(contexts),
             pending_confirmation |-> None,
             pending_tool_info |-> tool0,
             events |-> IF content # <<>> THEN <<AssistantEvent(content)>> ELSE <<>>]

CountToolEvents(evs) == Len(SelectSeq(evs, LAMBDA e : e.type = "CLIToolResultEvent"))

\* handle_confirmation that sends the decision key to Claude although no
\* confirmation is pending
HandleNoPendingSendsKey(approved) ==
  /\ turn.pc = "idle"
  /\ pending_confirmation = None
  /\ call' = Call("handle_confirmation", "no_pending", None,
                  <<[backend |-> TARGET_CLAUDE, fn |-> "respond_confirmation",
                     arg |-> <<IF approved THEN "yes" ELSE "no">>]>>,
                  NoResult)
  /\ events' = <<>>
  /\ UNCHANGED <<agentVars, backends, restVars, turn, worker, queue, chain>>

\* handle_confirmation(approved) when no confirmation is pending
HandleNoPending(approved) ==
  /\ turn.pc = "idle"
  /\ pending_confirmation = None
  /\ call' = Call("handle_confirmation", "no_pending", None, <<>>, NoResult)
  /\ events' = <<>>
  /\ UNCHANGED <<agentVars, backends, restVars, turn, worker, queue, chain>>

\* handle_confirmation(approved=False)
HandleRejected ==
  /\ turn.pc = "idle"
  /\ pending_confirmation # None
  /\ LET target == Val(pending_confirmation).target
     IN  /\ pending_confirmation' = None
         /\ call' = Call("handle_confirmation", "rejected", Some(target),
                         <<[backend |-> target, fn |-> "respond_confirmation", arg |-> <<"no">>]>>,
                         NoResult)
  /\ events' = <<>>
  /\ UNCHANGED <<messages, last_seen, pending_tool_info, action_contexts,
                 backends, restVars, turn, worker, queue, chain>>

\* handle_confirmation(approved=True): Enter is sent, wait_response polls until
\* the capture output shows a confirmation or the ready prompt, or until its
\* deadline (timed_out), and the result is merged into the agent state; before
\* is the capture wait_response takes on entry
HandleApproved(timed_out, before, output) ==
  /\ turn.pc = "idle"
  /\ pending_confirmation # None
  /\ (timed_out => output = before)
  /\ (~timed_out => output.status \in {"confirm", "ready"})
  /\ (output.status = "confirm" /\ ~timed_out => chain.approved + 1 < MaxChain)
  /\ LET target == Val(pending_confirmation).target
         result == IF timed_out THEN WaitTimeout(target)
                   ELSE WaitResponse(target, before, output)
         post == AfterWaitResponse(target, result)
     IN  /\ messages' = post.messages
         /\ last_seen' = post.last_seen
         /\ action_contexts' = post.action_contexts
         /\ pending_confirmation' = post.pending_confirmation
         /\ pending_tool_info' = post.pending_tool_info
         /\ events' = post.events
         /\ call' = Call("handle_confirmation", post.outcome, Some(target),
                       << [backend |-> target, fn |-> "respond_confirmation", arg |-> <<"yes">>],
                          [backend |-> target, fn |-> "wait_response", arg |-> <<>>] >>,
                       result)
         /\ chain' = [approved |-> chain.approved + 1,
                      tool_events |-> chain.tool_events + CountToolEvents(post.events)]
  /\ UNCHANGED <<backends, restVars, turn, worker, queue>>

\* ------------------------------------------------------------ other methods
clear_pending_tool_info ==
  /\ turn.pc = "idle"
  /\ pending_tool_info # None
  /\ pending_tool_info' = None
  /\ call' = Call("clear_pending_tool_info", "returned", None, <<>>, NoResult)
  /\ events' = <<>>
  /\ UNCHANGED <<messages, last_seen, pending_confirmation, action_contexts,
                 backends, restVars, turn, worker, queue, chain>>

\* clear_history that forgets to reset last_seen
clear_history_keeps_last_seen ==
  /\ turn.pc = "idle"
  /\ messages' = <<>>
  /\ action_contexts' = <<>>
  /\ call' = Call("clear_history", "returned", None, <<>>, NoResult)
  /\ events' = <<>>
  /\ UNCHANGED <<last_seen, pending_confirmation, pending_tool_info, backends, restVars, turn, worker,
                 queue, chain>>

clear_history ==
  /\ turn.pc = "idle"
  /\ messages' = <<>>
  /\ last_seen' = [t \in Targets |-> -1]
  /\ action_contexts' = <<>>
  /\ call' = Call("clear_history", "returned", None, <<>>, NoResult)
  /\ events' = <<>>
  /\ UNCHANGED <<pending_confirmation, pending_tool_info, backends, restVars, turn, worker,
                 queue, chain>>

Next ==
  \/ \E c \in RouteCalls : RouteNoTarget(c[1], c[2])
  \/ \E c \in RouteCalls, before \in IdlePanes : RouteStart(c[1], c[2], before)
  \/ \E output \in ValidPanes : \E final \in Settled(output) : WorkerPoll(output, final)
  \/ WorkerTimeout
  \/ StreamChunk
  \/ RouteFinish
  \/ \E approved \in BOOLEAN : HandleNoPending(approved)
  \/ HandleRejected
  \/ \E timed_out \in BOOLEAN, before \in RunningPanes, output \in ValidPanes :
       HandleApproved(timed_out, before, output)
  \/ clear_pending_tool_info
  \/ clear_history

Spec == Init /\ [][Next]_vars

\* ------------------------------------------------------------------ startup
\* how session.start can end: it returns, its 15 s wait for the ready literal
\* runs out (RuntimeError), or the tmux binary is missing (FileNotFoundError)
StartOutcomes == {"started", "RuntimeError", "FileNotFoundError"}

\* str(e) of the exception start raised
ErrorText(outcome) ==
  IF outcome = "RuntimeError" THEN <<"CLI", "SP", "timeout">> ELSE <<"No", "SP", "such", "SP", "file">>

\* the try block of one backend in __aenter__: `except Exception` catches
\* RuntimeError and FileNotFoundError
CaughtOnlyRuntimeError(outcome) == outcome = "RuntimeError"
CaughtByExcept(outcome) == outcome \in {"RuntimeError", "FileNotFoundError"}

\* DebateAgent.__init__: no backend handle yet.  The app enters the agent right
\* after it constructs it and calls its methods only when __aenter__ has
\* returned: until then no call can start (turn.pc = "unentered").
InitStartup ==
  /\ messages = <<>>
  /\ last_seen = [t \in Targets |-> -1]
  /\ pending_confirmation = None
  /\ pending_tool_info = None
  /\ action_contexts = <<>>
  /\ backends = [t \in Targets |-> "none"]
  /\ turn = [IdleTurn EXCEPT !.pc = "unentered"]
  /\ worker = IdleWorker
  /\ queue = <<>>
  /\ events = <<>>
  /\ call = Call("__init__", "returned", None, <<>>, NoResult)
  /\ chain = [approved |-> 0, tool_events |-> 0]
  /\ backend_errors = [t \in Targets |-> None]
  /\ parked = IdleFrame
  /\ approval = IdleApproval
  /\ poll = IdlePoll
  /\ probe = IdleProbe
  /\ stream = IdleStream
  /\ history = NoHistory

\* DebateAgent.__aenter__: the Claude block, then the Gemini block; starts[t]
\* is how the session of t starts.  An exception no block catches leaves
\* __aenter__ at that block.
AEnter(starts) ==
  LET failed(t) == starts[t] # "started"
      escaped(t) == failed(t) /\ ~CaughtByExcept(starts[t])
      reached(t) == t = TARGET_CLAUDE \/ ~escaped(TARGET_CLAUDE)
      raised == \E t \in Targets : reached(t) /\ escaped(t)
  IN  /\ turn.pc = "unentered"
      /\ call.op = "__init__"
      /\ turn' = IF raised THEN turn ELSE IdleTurn
      /\ backends' = [t \in Targets |->
                        IF reached(t) /\ ~failed(t) THEN "up" ELSE "none"]
      /\ backend_errors' = [t \in Targets |->
                              IF reached(t) /\ failed(t) /\ ~escaped(t)
                              THEN Some(ErrorText(starts[t])) ELSE None]
      /\ call' = Call("__aenter__", IF raised THEN "raised" ELSE "returned",
                      None, <<>>, NoResult)
      /\ events' = <<>>
      /\ UNCHANGED <<agentVars, worker, queue, chain, parked, approval, poll, probe, stream, history>>

NextStartup ==
  \/ \E starts \in [Targets -> StartOutcomes] : AEnter(starts)
  \/ Next

SpecStartup == InitStartup /\ [][NextStartup]_vars

\* --------------------------------------------------------- concurrent tasks
\* The app starts each routed turn as its own worker (run_worker with
\* exclusive=False) and DebateAgent holds no lock: while one route_message is
\* suspended in complete_streaming's queue wait, the event loop runs another
\* task.  parked is the frame of the task that is not running.  Polls and
\* stream chunks touch only the frame of their own task, so the switches that
\* matter are those taken at a call's first suspension and after its return.
TaskSwitch ==
  /\ \/ turn.pc = "idle"
     \/ turn.pc = "streaming" /\ worker.pc = "polling" /\ worker.polls = 0
  /\ turn.pc = "streaming" \/ parked.turn.pc = "streaming"
  /\ parked' = [turn |-> turn, worker |-> worker, queue |-> queue, events |-> events,
                call |-> call]
  /\ turn' = parked.turn
  /\ worker' = parked.worker
  /\ queue' = parked.queue
  /\ events' = parked.events
  /\ call' = parked.call
  /\ UNCHANGED <<agentVars, backends, chain, backend_errors, approval, poll, probe, stream, history>>

\* CancelTurn that logs the partial reply streamed so far
CancelTurnLogsPartial ==
  /\ turn.pc = "streaming"
  /\ turn' = [turn EXCEPT !.pc = "cancelled"]
  /\ call' = [call EXCEPT !.outcome = "cancelled"]
  /\ messages' = IF turn.full_response # <<>>
                 THEN Append(messages, Message(turn.target, CleanResponse(turn.full_response)))
                 ELSE messages
  /\ UNCHANGED <<last_seen, pending_confirmation, pending_tool_info, action_contexts,
                 backends, worker, queue, events, chain, restVars>>

\* the task running route_message is cancelled while it waits on the queue:
\* CancelledError leaves complete_streaming and route_message at that await;
\* the thread running session.ask is not stopped
CancelTurn ==
  /\ turn.pc = "streaming"
  /\ turn' = [turn EXCEPT !.pc = "cancelled"]
  /\ call' = [call EXCEPT !.outcome = "cancelled"]
  /\ UNCHANGED <<agentVars, backends, worker, queue, events, chain, restVars>>

\* session.ask of a cancelled turn returns: run_ask ends, nobody reads its queue
OrphanReturn ==
  /\ turn.pc = "cancelled"
  /\ worker.pc = "done"
  /\ turn' = [turn EXCEPT !.pc = "idle"]
  /\ worker' = IdleWorker
  /\ queue' = <<>>
  /\ UNCHANGED <<agentVars, backends, events, call, chain, restVars>>

\* the calls _route_to_ai makes: the tag is already parsed, the target given
ConcCalls == { <<<<"hi">>, Some(TARGET_CLAUDE)>>, <<<<"hi">>, Some(TARGET_GEMINI)>> }

\* captures of the overlapping turns: no reply or a one-line reply, no shell box
ConcPanes ==
  { p \in ValidPanes : /\ p.shell = None
                        /\ p.bullets <= 1
                        /\ p.text # ReplyAB
                        /\ p.ctx \in {<<>>, CtxShell} }

NextConc ==
  \/ \E c \in ConcCalls, before \in IdlePanes \cap ConcPanes : RouteStart(c[1], c[2], before)
  \/ \E output \in ConcPanes : WorkerPoll(output, output)
  \/ WorkerTimeout
  \/ StreamChunk
  \/ RouteFinish
  \/ HandleRejected
  \/ \E timed_out \in BOOLEAN, before \in RunningPanes \cap ConcPanes, output \in ConcPanes :
       HandleApproved(timed_out, before, output)
  \/ clear_history
  \/ TaskSwitch
  \/ CancelTurn
  \/ OrphanReturn

SpecConc == Init /\ [][NextConc]_vars

\* ---------------------------------------------------- the thread left behind
\* A cancelled route_message is over for the event loop, but the thread that
\* asyncio.to_thread started for session.ask runs on beside it.  OrphanSwitch
\* moves between the frame of that thread and the frame of the task the loop
\* runs; the thread's steps are WorkerPoll, WorkerTimeout and OrphanReturn.
OrphanSwitch ==
  /\ turn.pc = "cancelled" \/ parked.turn.pc = "cancelled"
  /\ parked' = [turn |-> turn, worker |-> worker, queue |-> queue, events |-> events,
                call |-> call]
  /\ turn' = parked.turn
  /\ worker' = parked.worker
  /\ queue' = parked.queue
  /\ events' = parked.events
  /\ call' = parked.call
  /\ UNCHANGED <<agentVars, backends, chain, backend_errors, approval, poll, probe, stream, history>>

NextCancel ==
  \/ \E c \in ConcCalls, before \in IdlePanes \cap ConcPanes : RouteStart(c[1], c[2], before)
  \/ \E output \in ConcPanes : WorkerPoll(output, output)
  \/ WorkerTimeout
  \/ StreamChunk
  \/ RouteFinish
  \/ CancelTurn
  \/ OrphanReturn
  \/ OrphanSwitch

SpecCancel == Init /\ [][NextCancel]_vars

\* ------------------------------------------------------------------ handoff
\* Turns long enough for one backend to read what the other did: a log of up
\* to MaxHandoff messages, a turn for Gemini and a turn for Claude that differ
\* in the user's text, captures that show a one-line reply at the ready prompt
\* or the confirmation box of a file write.
MaxHandoff == 6

HandoffCalls == { <<<<"hi">>, Some(TARGET_GEMINI)>>, <<<<"hello">>, Some(TARGET_CLAUDE)>> }

HandoffPanes ==
  { p \in ValidPanes : /\ p.shell = None
                        /\ p.bullets <= 1
                        /\ p.text # ReplyAB
                        /\ \/ p.status = "ready"
                           \/ p.status = "confirm" /\ p.ctx = CtxWrite /\ p.text = <<>> }

HandoffRunning == { p \in RunningPanes : p.bullets = 0 }

NextHandoff ==
  \/ \E c \in HandoffCalls, before \in IdlePanes \cap HandoffPanes :
       RouteStartWithin(MaxHandoff, c[1], c[2], before)
  \/ \E output \in HandoffPanes : WorkerPoll(output, output)
  \/ StreamChunk
  \/ RouteFinish
  \/ HandleRejected
  \/ \E before \in HandoffRunning, output \in HandoffPanes : HandleApproved(FALSE, before, output)
  \/ TaskSwitch

SpecHandoff == Init /\ [][NextHandoff]_vars

\* ------------------------------------------- complete_streaming on the loop
\* TmuxBackend.complete_streaming bridges the polling thread and the async
\* generator with an asyncio.Queue.  The steps below are the callbacks the
\* event loop runs for it, in the order the loop runs them: ready is the
\* loop's FIFO of callbacks, ntodo how many of them belong to the iteration
\* being run, and a timer that is due joins the FIFO when an iteration starts.
MaxPartials == 2

\* what the polling thread hands to on_update at its i-th call: the reply as
\* far as the pane shows it, one word more each time
PartialText(i) == [j \in 1..i |-> "a"]

\* what session.ask returns, or the exception it raises
StreamResults ==
  { StrResult(ReplyAB), ParsedConfirmation(CtxWrite, None, None, None), Raised("Exception") }

\* wait_for and _cancel_and_wait create a fresh waiter future each time; a
\* callback released for an earlier waiter finds it done and does nothing
WaiterIds == 3

nonStreamVars ==
  <<agentVars, backends, turn, worker, queue, events, call, chain,
    backend_errors, parked, approval, poll, probe, history>>

Callback(cb, arg) == [cb |-> cb, arg |-> arg]

\* loop.call_soon / loop.call_soon_threadsafe
CallSoon(s, callback) == [s EXCEPT !.ready = Append(@, callback)]

\* the chunk complete_streaming yields for a str taken from the queue
PartialChunk(chunk) == [finish_reason |-> "None", content |-> chunk]

\* asyncio.wait_for(queue.get(), timeout=0.1) up to its first await: a waiter,
\* the timer that releases it, and a task for queue.get() whose completion
\* releases it too
StartWaitFor(s) ==
  LET id == (s.waiter.id + 1) % WaiterIds
  IN  CallSoon([s EXCEPT !.waiter = [id |-> id, done |-> FALSE],
                         !.timer = "armed",
                         !.inner = "scheduled",
                         !.cancel = FALSE,
                         !.item = None,
                         !.done_cb = id,
                         !.pc = "wait"],
               Callback("get", <<>>))

\* the body of the while loop once wait_for has returned chunk
AfterChunk(s, chunk) ==
  IF chunk = EndOfStream
  THEN [s EXCEPT !.pc = "final"]
  ELSE [s EXCEPT !.yielded = Append(@, PartialChunk(chunk.text)), !.pc = "yield"]

\* except TimeoutError: break when the task is done, else wait again
AfterTimeoutError(s) ==
  IF s.task_done THEN [s EXCEPT !.pc = "final"] ELSE StartWaitFor(s)

\* Task.cancel() on the queue.get() task: a task parked on its getter is
\* woken with the getter cancelled; one whose step is already scheduled
\* gets CancelledError thrown in when that step runs
CancelGet(s) ==
  IF s.inner = "waiting"
  THEN CallSoon([s EXCEPT !.inner = "cancelling"], Callback("get", <<>>))
  ELSE [s EXCEPT !.cancel = TRUE]

\* Queue.put_nowait: append the item and wake the getter that waits
PutNowait(s, item) ==
  LET put == [s EXCEPT !.q = Append(@, item)]
  IN  IF s.inner = "waiting"
      THEN CallSoon([put EXCEPT !.inner = "woken"], Callback("get", <<>>))
      ELSE put

\* a finished queue.get() task schedules the done callback attached to it
GetFinished(s) ==
  IF s.done_cb >= 0 THEN CallSoon(s, Callback("release", s.done_cb)) ELSE s

\* _release_waiter: a waiter that is still pending gets its result and the
\* generator's wake-up is scheduled
ReleaseWaiter(s, id) ==
  IF s.waiter.id = id /\ ~s.waiter.done
  THEN CallSoon([s EXCEPT !.waiter.done = TRUE], Callback("consumer", <<>>))
  ELSE s

\* the callback at the head of the FIFO leaves it
Popped(s) == [s EXCEPT !.ready = Tail(@), !.ntodo = @ - 1]

Runs(cb) ==
  /\ stream.ntodo > 0
  /\ Head(stream.ready).cb = cb

\* first step of the generator: create_task(run_ask()), then the first wait
StreamStart ==
  /\ stream.pc = "idle"
  /\ stream' = StartWaitFor(CallSoon(stream, Callback("run_ask", <<>>)))
  /\ UNCHANGED nonStreamVars

\* BaseEventLoop._run_once: a due timer joins the FIFO, and the callbacks
\* that are in it now make up this iteration
RunOnce ==
  /\ stream.pc \notin {"idle", "done"}
  /\ stream.ntodo = 0
  /\ \E due \in {stream.timer = "armed", FALSE} :
       LET s == IF due THEN CallSoon([stream EXCEPT !.timer = "due"], Callback("timer", <<>>))
                ELSE stream
       IN  /\ s.ready # <<>>
           /\ stream' = [s EXCEPT !.ntodo = Len(s.ready)]
  /\ UNCHANGED nonStreamVars

\* the polling thread calls on_update(text)
OnUpdate ==
  /\ stream.thread = "running"
  /\ Len(stream.sent) < MaxPartials
  /\ LET text == PartialText(Len(stream.sent) + 1)
     IN  stream' = CallSoon([stream EXCEPT !.sent = Append(@, text)],
                            Callback("create_put", text))
  /\ UNCHANGED nonStreamVars

\* session.ask returns or raises in the thread
ThreadReturn ==
  /\ stream.thread = "running"
  /\ \E result \in StreamResults :
       stream' = CallSoon([stream EXCEPT !.thread = "returned", !.result = result],
                          Callback("set_result", <<>>))
  /\ UNCHANGED nonStreamVars

\* run_coroutine_threadsafe's callback: a task for queue.put(text)
RunCreatePut ==
  /\ Runs("create_put")
  /\ stream' = CallSoon(Popped(stream), Callback("put", Head(stream.ready).arg))
  /\ UNCHANGED nonStreamVars

\* the task of queue.put(text)
RunPut ==
  /\ Runs("put")
  /\ stream' = PutNowait(Popped(stream), TextChunk(Head(stream.ready).arg))
  /\ UNCHANGED nonStreamVars

\* the thread's future is resolved on the loop, which wakes run_ask
RunSetResult ==
  /\ Runs("set_result")
  /\ stream' = CallSoon(Popped(stream), Callback("run_ask", <<>>))
  /\ UNCHANGED nonStreamVars

\* run_ask: its first step starts the thread; its second, after the thread,
\* puts None and returns, or ends with the exception ask raised
RunAsk ==
  /\ Runs("run_ask")
  /\ LET s == Popped(stream)
     IN  stream' =
           IF s.thread = "idle" THEN [s EXCEPT !.thread = "running"]
           ELSE IF s.result \in {Raised("Exception")} THEN [s EXCEPT !.task_done = TRUE]
           ELSE [PutNowait(s, EndOfStream) EXCEPT !.task_done = TRUE]
  /\ UNCHANGED nonStreamVars

\* a step of the queue.get() task
RunGet ==
  /\ Runs("get")
  /\ LET s == Popped(stream)
     IN  stream' =
           IF s.cancel \/ s.inner = "cancelling"
           THEN GetFinished([s EXCEPT !.inner = "cancelled"])
           ELSE IF s.q = <<>> THEN [s EXCEPT !.inner = "waiting"]
           ELSE GetFinished([s EXCEPT !.inner = "done", !.item = Some(Head(s.q)),
                                      !.q = Tail(s.q)])
  /\ UNCHANGED nonStreamVars

\* the done callback of the queue.get() task
RunRelease ==
  /\ Runs("release")
  /\ stream' = ReleaseWaiter(Popped(stream), Head(stream.ready).arg)
  /\ UNCHANGED nonStreamVars

\* the 0.1 s timer of wait_for; a cancelled handle does nothing
RunTimer ==
  /\ Runs("timer")
  /\ LET s == Popped(stream)
     IN  stream' = IF s.timer = "due"
                   THEN ReleaseWaiter([s EXCEPT !.timer = "off"], s.waiter.id)
                   ELSE s
  /\ UNCHANGED nonStreamVars

\* the generator wakes in wait_for: the item when the get task is done,
\* otherwise the task is cancelled and awaited, and a cancelled task is
\* TimeoutError
RunConsumer ==
  /\ Runs("consumer")
  /\ LET s == Popped(stream)
         off == [s EXCEPT !.timer = "off"]
     IN  stream' =
           IF s.inner = "done" THEN AfterChunk(off, Val(s.item))
           ELSE IF s.pc = "wait"
           THEN LET id == (s.waiter.id + 1) % WaiterIds
                IN  CancelGet([s EXCEPT !.waiter = [id |-> id, done |-> FALSE],
                                        !.done_cb = id, !.pc = "cancel_wait"])
           ELSE AfterTimeoutError(off)
  /\ UNCHANGED nonStreamVars

\* the caller asks the generator for the next chunk
NextChunk ==
  /\ stream.pc = "yield"
  /\ stream' = StartWaitFor(stream)
  /\ UNCHANGED nonStreamVars

\* after the loop: await task, then the terminal chunk
StreamFinish ==
  /\ stream.pc = "final"
  /\ stream.task_done
  /\ LET final_result == IF stream.result \in {Raised("Exception")} THEN NoResult
                         ELSE stream.result
     IN  stream' = [stream EXCEPT !.yielded = Append(@, TerminalChunk(final_result)),
                                  !.pc = "done"]
  /\ UNCHANGED nonStreamVars

NextStream ==
  \/ StreamStart
  \/ RunOnce
  \/ OnUpdate
  \/ ThreadReturn
  \/ RunCreatePut
  \/ RunPut
  \/ RunSetResult
  \/ RunAsk
  \/ RunGet
  \/ RunRelease
  \/ RunTimer
  \/ RunConsumer
  \/ NextChunk
  \/ StreamFinish

SpecStream == Init /\ [][NextStream]_vars

\* ------------------------------------------------------ ConversationHistory
\* One ConversationHistory object: its limit, its messages and its cursors.
MaxHistory == 3

Max(a, b) == IF a >= b THEN a ELSE b

otherVars ==
  <<agentVars, backends, turn, worker, queue, events, call, chain,
    backend_errors, parked, approval, poll, probe, stream>>

\* max(0, self._last_seen[ai] - excess)
AdjustLastSeen(cursor, excess) == Max(0, cursor - excess)

\* ConversationHistory(max_messages)
HistoryNew(max_messages) ==
  /\ history.op = "none"
  /\ history' = [NoHistory EXCEPT !.op = "__init__", !.max_messages = max_messages]
  /\ UNCHANGED otherVars

add_message(role, content, is_ephemeral) ==
  /\ history.op # "none"
  /\ LET msg == [Message(role, content) EXCEPT !.is_ephemeral = is_ephemeral]
         appended == Append(history.messages, msg)
         excess == Len(appended) - history.max_messages
     IN  history' =
           IF Len(appended) > history.max_messages
           THEN [history EXCEPT
                   !.op = "add_message",
                   !.messages = SubSeq(appended, excess + 1, Len(appended)),
                   !.last_seen = [ai \in Targets |-> AdjustLastSeen(history.last_seen[ai], excess)]]
           ELSE [history EXCEPT !.op = "add_message", !.messages = appended]
  /\ UNCHANGED otherVars

mark_seen(target) ==
  /\ history.op # "none"
  /\ history' = [history EXCEPT
                   !.op = "mark_seen",
                   !.last_seen[target] = IF history.messages # <<>>
                                         THEN Len(history.messages) - 1 ELSE -1]
  /\ UNCHANGED otherVars

clear ==
  /\ history.op # "none"
  /\ history' = [history EXCEPT !.op = "clear", !.messages = <<>>,
                                !.last_seen = [ai \in Targets |-> -1]]
  /\ UNCHANGED otherVars

NextHistory ==
  \/ \E max_messages \in 1..MaxHistory : HistoryNew(max_messages)
  \/ \E role \in {"user"} \cup Targets, content \in {ReplyA, ReplyAB}, is_ephemeral \in BOOLEAN :
       add_message(role, content, is_ephemeral)
  \/ \E target \in Targets : mark_seen(target)
  \/ clear

SpecHistory == Init /\ [][NextHistory]_vars

\* --------------------------------------------------------- approval channel
MaxRequests == 3
MaxInbox == 2

ApprovalResponse == {"YES", "NO"}

\* an asyncio.Future for request id, and the same Future after set_result
NewFuture(id) == [id |-> id, done |-> FALSE, result |-> None, posted_for |-> None]
SetResult(future, decision, posted_for) ==
  [future EXCEPT !.done = TRUE, !.result = Some(decision), !.posted_for = Some(posted_for)]

\* _handle_ai_confirmation up to its await: a new Future is stored in
\* _pending_approval and the ApprovalApp of the request is mounted
RequestApproval ==
  /\ approval.waiter = None
  /\ approval.requests < MaxRequests
  /\ LET id == approval.requests + 1
     IN  approval' = [approval EXCEPT !.requests = id,
                                      !.pending = Some(NewFuture(id)),
                                      !.dialog = Some(id),
                                      !.waiter = Some(id)]
  /\ UNCHANGED <<agentVars, backends, turn, worker, queue, events, call, chain,
                 backend_errors, parked, poll, probe, stream, history>>

\* ApprovalApp._handle_selection: a key of the mounted dialog posts a message
\* (y, 1 or Enter: ApprovalGranted; n, 3 or Esc: ApprovalRejected); the
\* dialog stays mounted and takes further keys until the app removes it
Select(decision) ==
  /\ approval.dialog # None
  /\ Len(approval.inbox) < MaxInbox
  /\ approval' = [approval EXCEPT
                    !.inbox = Append(@, [decision |-> decision,
                                         posted_for |-> Val(approval.dialog)])]
  /\ UNCHANGED <<agentVars, backends, turn, worker, queue, events, call, chain,
                 backend_errors, parked, poll, probe, stream, history>>

\* on_approval_app_approval_granted / _rejected: _pending_approval after the
\* handler has run on message
OnApprovalMessage(pending, message) ==
  IF pending # None /\ ~Val(pending).done
  THEN Some(SetResult(Val(pending), message.decision, message.posted_for))
  ELSE pending

\* the app handles the next posted message and switches back to the input
HandleApprovalMessage ==
  /\ approval.inbox # <<>>
  /\ approval' = [approval EXCEPT
                    !.pending = OnApprovalMessage(approval.pending, Head(approval.inbox)),
                    !.dialog = None,
                    !.inbox = Tail(@)]
  /\ UNCHANGED <<agentVars, backends, turn, worker, queue, events, call, chain,
                 backend_errors, parked, poll, probe, stream, history>>

\* `result, feedback = await self._pending_approval` resumes and
\* _pending_approval is set to None
ResumeWaiter ==
  /\ approval.waiter # None
  /\ approval.pending # None
  /\ Val(approval.pending).done
  /\ approval' = [approval EXCEPT
                    !.decided = Append(@, [request |-> Val(approval.waiter),
                                           decision |-> Val(Val(approval.pending).result),
                                           posted_for |-> Val(Val(approval.pending).posted_for)]),
                    !.pending = None,
                    !.waiter = None]
  /\ UNCHANGED <<agentVars, backends, turn, worker, queue, events, call, chain,
                 backend_errors, parked, poll, probe, stream, history>>

NextApproval ==
  \/ RequestApproval
  \/ \E decision \in ApprovalResponse : Select(decision)
  \/ HandleApprovalMessage
  \/ ResumeWaiter

SpecApproval == Init /\ [][NextApproval]_vars

\* ------------------------------------------------------------ adapter calls
\* A screen is a capture with the ready prompt and the spinner told apart:
\* prompt is the ready literal ('>' in the last five lines, "Type your
\* message"), spinner a spinner glyph or Gemini's "esc to cancel".
Screens ==
  { [text |-> t, bullets |-> n, ctx |-> c, shell |-> None, prompt |-> pr, spinner |-> sp] :
      t \in {<<>>, ReplyA, ReplyAB}, n \in 0..MaxBullets, c \in {<<>>, CtxShell},
      pr \in BOOLEAN, sp \in BOOLEAN }

\* StatusOf with the spinner test left out
StatusOfIgnoresSpinner(screen) ==
  IF screen.ctx # <<>> THEN "confirm"
  ELSE IF screen.prompt THEN "ready"
  ELSE "busy"

\* what the loops make of a screen: the confirmation test comes first, then
\* `prompt_ready and not has_spinner`
StatusOf(screen) ==
  IF screen.ctx # <<>> THEN "confirm"
  ELSE IF screen.prompt /\ ~screen.spinner THEN "ready"
  ELSE "busy"

\* the capture as the loops read it; it keeps the prompt and the spinner, so
\* that two captures are equal only when they show the same screen
PaneOf(screen) ==
  [text |-> screen.text, bullets |-> screen.bullets, status |-> StatusOf(screen),
   ctx |-> screen.ctx, shell |-> screen.shell,
   prompt |-> screen.prompt, spinner |-> screen.spinner]

ValidScreens == { screen \in Screens : (screen.text = <<>>) = (screen.bullets = 0) }

AdapterMethods == {"ask", "wait_response"}

\* session.ask(prompt, timeout, on_update) or session.wait_response(timeout,
\* on_update) is called; before is the capture taken on entry
AdapterCall(method, backend, before) ==
  /\ poll.pc \in {"idle", "done"}
  /\ poll' = [IdlePoll EXCEPT !.pc = "polling", !.method = method,
                              !.before = Some(before),
                              !.w = IF method = "ask" THEN AskStart(backend, before)
                                    ELSE WaitStart(backend, before)]
  /\ UNCHANGED <<agentVars, backends, turn, worker, queue, events, call, chain,
                 backend_errors, parked, approval, probe, stream, history>>

\* one iteration of the loop of the call: screen is its capture, final the
\* capture ask takes after its settle
AdapterPoll(screen, final) ==
  /\ poll.pc = "polling"
  /\ poll.w.polls < MaxPolls
  /\ LET output == PaneOf(screen)
         r == IF poll.method = "ask" THEN AskPoll(poll.w, output, final)
              ELSE IF poll.w.backend = TARGET_CLAUDE THEN ClaudeWaitPoll(poll.w, output)
              ELSE GeminiWaitPoll(poll.w, Val(poll.before), output)
     IN  poll' = [poll EXCEPT !.pc = IF r.w.pc = "done" THEN "done" ELSE "polling",
                              !.w = r.w,
                              !.prev = poll.capture,
                              !.capture = Some(screen),
                              !.parsed = r.parsed,
                              !.put = r.put]
  /\ UNCHANGED <<agentVars, backends, turn, worker, queue, events, call, chain,
                 backend_errors, parked, approval, probe, stream, history>>

\* a loop whose condition never turns false: the deadline is never seen
AdapterNeverTimesOut ==
  /\ FALSE
  /\ UNCHANGED vars

\* the deadline of the call expires: the timeout sentinel is returned
AdapterTimeout ==
  /\ poll.pc = "polling"
  /\ poll.w.polls >= MaxPolls
  /\ poll' = [poll EXCEPT !.pc = "done",
                          !.deadline = TRUE,
                          !.parsed = FALSE,
                          !.put = None,
                          !.w = IF poll.method = "ask"
                                THEN AskReturn(poll.w, StrResult(TimeoutSentinel))
                                ELSE WaitReturn(poll.w, WaitTimeout(poll.w.backend))]
  /\ UNCHANGED <<agentVars, backends, turn, worker, queue, events, call, chain,
                 backend_errors, parked, approval, probe, stream, history>>

NextAdapter ==
  \/ \E method \in AdapterMethods, backend \in Targets :
       \E before \in (IF method = "ask" THEN IdlePanes ELSE RunningPanes) :
         AdapterCall(method, backend, before)
  \/ \E screen \in ValidScreens : \E final \in Settled(PaneOf(screen)) :
       AdapterPoll(screen, final)
  \/ AdapterTimeout

SpecAdapter == Init /\ [][NextAdapter]_vars

\* The polling thread is not starved: time.sleep(1) and the capture return,
\* so an iteration that can run does run, and the clock reaches the deadline.
AdapterLoopStep ==
  \/ \E screen \in ValidScreens : \E final \in Settled(PaneOf(screen)) :
       AdapterPoll(screen, final)
  \/ AdapterTimeout

SpecAdapterFair == SpecAdapter /\ WF_vars(AdapterLoopStep)

\* ------------------------------------------------------------ tool parsers
(* The text handed to a parser is a sequence of lines.  A line is a body and *)
(* the number of "| ... |" box wrappers (padded with blanks) around it; the  *)
(* bodies are the lines the parsers tell apart: tool headers, box borders,   *)
(* the dashed separator, numbered diff lines, a file name, plain text.       *)
FROM_BOX == "__FROM_BOX__"

LineText(line) ==
  IF line.wrap = 0 THEN line.body
  ELSE IF line.wrap = 1 THEN "| " \o line.body \o " |"
  ELSE "| | " \o line.body \o " | |"

\* pre-processing of parse: the outer wrapper of a wrapped line is removed;
\* BOX_LINE.match(line).group(1) in _extract_box does the same
StripWrapper(line) == IF line.wrap > 0 THEN [line EXCEPT !.wrap = line.wrap - 1] ELSE line

\* CLIToolInfo as the parsers construct it
ParsedToolInfo(tool_type, file_path, description, diff_lines) ==
  [tool_type |-> tool_type, file_path |-> file_path, description |-> description,
   diff_lines |-> diff_lines, exit_code |-> None, shell_output |-> None,
   is_new_file |-> FALSE]

\* TOOL_HEADER.match(line) and _normalize_tool_type: tool type and the rest of
\* the header
ClaudeToolHeader(line) ==
  IF line.wrap # 0 THEN None
  ELSE CASE line.body = "Bash(ls)" -> Some([tool_type |-> "shell", rest |-> "ls"])
         [] line.body = "Bash(cat > f.py)" -> Some([tool_type |-> "shell", rest |-> "cat > f.py"])
         [] line.body = "Write(f.py)" -> Some([tool_type |-> "write_file", rest |-> "f.py"])
         [] line.body = "Update(f.py)" -> Some([tool_type |-> "edit", rest |-> "f.py"])
         [] OTHER -> None

GeminiToolHeader(line) ==
  IF line.wrap # 0 THEN None
  ELSE CASE line.body = "Shell ls" -> Some([tool_type |-> "shell", rest |-> "ls"])
         [] line.body = "WriteFile f.py" -> Some([tool_type |-> "write_file", rest |-> "f.py"])
         [] line.body = "Edit f.py" -> Some([tool_type |-> "edit", rest |-> "f.py"])
         [] OTHER -> None

\* the header found outside a box: Claude reads Bash(cat > file) as a write
ClaudePendingHeader(header) ==
  IF header.tool_type = "shell" /\ header.rest = "cat > f.py"
  THEN [tool_type |-> "write_file", file_path |-> "f.py"]
  ELSE [tool_type |-> header.tool_type, file_path |-> header.rest]

\* LINE_ADDED / LINE_REMOVED / LINE_CONTEXT on the stripped line
NumberedLine(line) ==
  IF line.wrap # 0 THEN None
  ELSE CASE line.body = "1 + x" -> Some(<<"+", "x">>)
         [] line.body = "2 - y" -> Some(<<"-", "y">>)
         [] line.body = "3 z" -> Some(<<" ", "z">>)
         [] OTHER -> None

\* EXIT_CODE_PATTERN.search(line): Claude's pattern knows both trailers,
\* Gemini's only the first
ExitCodeLine(parser, line) ==
  \/ line.body = "Command exited with code: 1"
  \/ (parser = TARGET_CLAUDE /\ line.body = "Error: Exit code 1")

\* the numbered lines of lines as diff lines; context lines count as added
\* lines when is_new_file
NumberedDiff(lines, is_new_file) ==
  LET numbered == SelectSeq(lines, LAMBDA l : NumberedLine(l) # None)
  IN  [i \in 1..Len(numbered) |->
         LET d == Val(NumberedLine(numbered[i]))
         IN  IF d[1] = " " /\ is_new_file THEN <<"+", d[2]>> ELSE d]

\* GeminiToolParser._extract_diff_from_lines
GeminiExtractDiff(lines, is_new_file) == NumberedDiff(lines, is_new_file)

\* the first line "looks like a file name": it holds a "." and no "/"
LooksLikeFileName(line) ==
  line.body \in {"f.py", "Write(f.py)", "Update(f.py)", "Bash(cat > f.py)", "Edit file f.py",
                 "WriteFile f.py", "Edit f.py"}

\* noise_patterns
IsNoise(line) == line.wrap = 0 /\ line.body = "Bash command"

\* ClaudeToolParser._extract_diff_from_lines: numbered lines if there are
\* any, otherwise every line that is no noise as raw content
ClaudeExtractDiff(lines, is_new_file) ==
  LET numbered == NumberedDiff(lines, is_new_file)
      start_idx == IF lines # <<>> /\ LooksLikeFileName(lines[1]) THEN 2 ELSE 1
      raw == SelectSeq(SubSeq(lines, start_idx, Len(lines)), LAMBDA l : ~IsNoise(l))
  IN  IF numbered # <<>> THEN numbered
      ELSE [i \in 1..Len(raw) |-> <<(IF is_new_file THEN "+" ELSE " "), LineText(raw[i])>>]

ExtractDiff(parser, lines, is_new_file) ==
  IF parser = TARGET_CLAUDE THEN ClaudeExtractDiff(lines, is_new_file)
  ELSE GeminiExtractDiff(lines, is_new_file)

ToolHeader(parser, line) ==
  IF parser = TARGET_CLAUDE THEN ClaudeToolHeader(line) ELSE GeminiToolHeader(line)

IsBoxStart(line) == line.wrap = 0 /\ line.body = "BOX_START"
IsBoxEnd(line) == line.wrap = 0 /\ line.body = "BOX_END"

\* index of the first line after start that closes the box, or of the last
\* line when nothing closes it
BoxEndIdx(lines, start) ==
  LET ends == { j \in (start + 1)..Len(lines) : IsBoxEnd(lines[j]) }
  IN  IF ends = {} THEN Len(lines) ELSE CHOOSE j \in ends : \A k \in ends : j <= k

\* _extract_box(lines, start_idx): the content lines of the box that starts
\* at line start.  Claude's parser keeps the lines that carry no wrapper,
\* Gemini's drops them.
BoxLines(parser, lines, start, end_idx) ==
  LET inside == SubSeq(lines, start + 1,
                       IF IsBoxEnd(lines[end_idx]) /\ end_idx > start THEN end_idx - 1
                       ELSE end_idx)
      kept == IF parser = TARGET_CLAUDE THEN inside
              ELSE SelectSeq(inside, LAMBDA l : l.wrap > 0)
  IN  [i \in 1..Len(kept) |-> StripWrapper(kept[i])]

\* the header a box holds: the last line of it that TOOL_HEADER matches
BoxHeader(parser, headers) == Val(ToolHeader(parser, headers[Len(headers)]))

\* _parse_box(box_lines): the tool of a box that holds its own header
ParseBox(parser, box_lines) ==
  LET headers == SelectSeq(box_lines, LAMBDA l : ToolHeader(parser, l) # None)
  IN  IF headers = <<>> THEN None
      ELSE Some(ParsedToolInfo(BoxHeader(parser, headers).tool_type,
                               BoxHeader(parser, headers).rest, "",
                               NumberedDiff(box_lines, FALSE)))

\* the tool of a header found outside a box, its diff taken from lines
HeaderTool(parser, pending, lines) ==
  ParsedToolInfo(pending.tool_type, pending.file_path, "",
                 ExtractDiff(parser, lines, pending.tool_type = "write_file"))

\* the tool built from a header found before its box; Claude's "Create file"
\* header takes the file name from the first line of the box
PendingTool(parser, pending, box_lines) ==
  IF pending.file_path = FROM_BOX
  THEN ParsedToolInfo(pending.tool_type, LineText(box_lines[1]), "",
                      ExtractDiff(parser, Tail(box_lines), pending.tool_type = "write_file"))
  ELSE HeaderTool(parser, pending, box_lines)

\* tool_info after a box: the box's own tool, else the pending header's
BoxTool(parser, st, box_lines, parsed) ==
  IF box_lines = <<>> THEN st.tool_info
  ELSE IF parsed # None THEN parsed
  ELSE IF st.pending_header # None
  THEN Some(PendingTool(parser, Val(st.pending_header), box_lines))
  ELSE st.tool_info

BoxFound(parser, st, box_lines, end_idx) ==
  [st EXCEPT !.tool_info = BoxTool(parser, st, box_lines, ParseBox(parser, box_lines)),
             !.pending_header = None,
             !.i = end_idx + 1]

SetPendingHeader(st, tool_type, file_path) ==
  [st EXCEPT !.pending_header = Some([tool_type |-> tool_type, file_path |-> file_path]),
             !.i = st.i + 1]

\* B50: "Bash command", the command on the next line, its description after
BashCommandFound(lines, st) ==
  [st EXCEPT !.tool_info =
               Some(ParsedToolInfo("shell",
                      IF st.i + 1 <= Len(lines) THEN LineText(lines[st.i + 1]) ELSE "",
                      IF st.i + 2 <= Len(lines) THEN LineText(lines[st.i + 2]) ELSE "",
                      <<>>)),
             !.i = st.i + 3]

IsSeparator(line) == line.wrap = 0 /\ line.body = "SEP"

\* index of the separator that closes the diff opened at start, or one past
\* the last line
SeparatorEndIdx(lines, start) ==
  LET seps == { j \in (start + 1)..Len(lines) : IsSeparator(lines[j]) }
  IN  IF seps = {} THEN Len(lines) + 1 ELSE CHOOSE j \in seps : \A k \in seps : j <= k

SeparatorFound(lines, st, pending, sep_end) ==
  [st EXCEPT !.tool_info =
               Some(ParsedToolInfo(pending.tool_type, pending.file_path, "",
                      ClaudeExtractDiff(SubSeq(lines, st.i + 1, sep_end - 1),
                                        pending.tool_type = "write_file"))),
             !.pending_header = None,
             !.i = sep_end + 1]

HeaderFound(parser, st, header) ==
  IF parser = TARGET_CLAUDE
  THEN SetPendingHeader(st, ClaudePendingHeader(header).tool_type,
                        ClaudePendingHeader(header).file_path)
  ELSE SetPendingHeader(st, header.tool_type, header.rest)

IsClaudeLine(parser, line, body) == parser = TARGET_CLAUDE /\ line.wrap = 0 /\ line.body = body

\* one iteration of the while loop of parse on line lines[st.i]; st holds the
\* locals of parse (i counts lines from 1)
ParseStep(parser, lines, st, line) ==
  IF IsClaudeLine(parser, line, "Edit file f.py") THEN SetPendingHeader(st, "edit", "f.py")
  ELSE IF IsClaudeLine(parser, line, "Create file")
  THEN SetPendingHeader(st, "write_file", FROM_BOX)
  ELSE IF IsClaudeLine(parser, line, "Bash command") THEN BashCommandFound(lines, st)
  ELSE IF ToolHeader(parser, line) # None
  THEN HeaderFound(parser, st, Val(ToolHeader(parser, line)))
  ELSE IF IsBoxStart(line)
  THEN BoxFound(parser, st,
                BoxLines(parser, lines, st.i, BoxEndIdx(lines, st.i)),
                BoxEndIdx(lines, st.i))
  ELSE IF IsClaudeLine(parser, line, "SEP") /\ st.pending_header # None
  THEN SeparatorFound(lines, st, Val(st.pending_header), SeparatorEndIdx(lines, st.i))
  ELSE [st EXCEPT !.text_lines = Append(st.text_lines, line), !.i = st.i + 1]

RECURSIVE ParseLoop(_, _, _)
ParseLoop(parser, lines, st) ==
  IF st.i > Len(lines) THEN st
  ELSE ParseLoop(parser, lines, ParseStep(parser, lines, st, lines[st.i]))

\* after the loop: a header that met no box takes its diff from the text lines
ToolAfterLoop(parser, st) ==
  IF st.pending_header # None /\ st.tool_info = None
  THEN Some(HeaderTool(parser, Val(st.pending_header), st.text_lines))
  ELSE st.tool_info

\* the exit code of a shell tool: the first trailer in the text
WithExitCode(parser, lines, tool) ==
  IF tool # None /\ Val(tool).tool_type = "shell"
     /\ \E i \in 1..Len(lines) : ExitCodeLine(parser, lines[i])
  THEN Some([Val(tool) EXCEPT !.exit_code = Some(1)])
  ELSE tool

\* Path(file_path).exists() with every path taken for a new file
NeverExists(file_path, files) == FALSE

\* Path(file_path).exists(); files are the paths that exist
Exists(file_path, files) == file_path \in files

\* B51: is_new_file of a write_file or edit tool
WithIsNewFile(tool, files) ==
  IF tool # None /\ Val(tool).file_path # "" /\ Val(tool).tool_type \in {"write_file", "edit"}
  THEN Some([Val(tool) EXCEPT !.is_new_file = ~Exists(Val(tool).file_path, files)])
  ELSE tool

PreProcess(raw_lines) == [i \in 1..Len(raw_lines) |-> StripWrapper(raw_lines[i])]

ParseResult(parser, lines, st, files) ==
  [text_lines |-> st.text_lines,
   tool_info |-> WithIsNewFile(WithExitCode(parser, lines, ToolAfterLoop(parser, st)), files)]

\* parse(raw_output) of ClaudeToolParser / GeminiToolParser: the text lines
\* and the tool info, or None
Parse(parser, raw_lines, files) ==
  ParseResult(parser, PreProcess(raw_lines),
              ParseLoop(parser, PreProcess(raw_lines),
                        [i |-> 1, pending_header |-> None, tool_info |-> None,
                         text_lines |-> <<>>]),
              files)

\* --- search/replace reconstruction -------------------------------------------
(* A diff line is a pair <<line_type, content>>; a content is a text, the     *)
(* empty string being the empty text. "\n".join is concatenation with a NL    *)
(* token between the lines, so the join of no line and the join of one empty  *)
(* line are the same text, as in Python.                                      *)
RECURSIVE JoinLines(_)
JoinLines(lines) ==
  IF lines = <<>> THEN <<>>
  ELSE IF Len(lines) = 1 THEN lines[1]
  ELSE lines[1] \o <<"NL">> \o JoinLines(Tail(lines))

InSearchRemovedOnly(line_type) == line_type = "-"

\* a removed line goes to the search side, an added line to the replace side,
\* any other line to both
InSearch(line_type) == line_type = "-" \/ line_type \notin {"-", "+"}
InReplace(line_type) == line_type = "+" \/ line_type \notin {"-", "+"}

\* the loop over info.diff_lines, appending to search_lines and replace_lines
RECURSIVE SplitDiff(_, _, _)
SplitDiff(diff_lines, search_lines, replace_lines) ==
  IF diff_lines = <<>>
  THEN [search_lines |-> search_lines, replace_lines |-> replace_lines]
  ELSE LET line_type == diff_lines[1][1]
           content == diff_lines[1][2]
       IN  SplitDiff(Tail(diff_lines),
                     IF InSearch(line_type) THEN Append(search_lines, content) ELSE search_lines,
                     IF InReplace(line_type) THEN Append(replace_lines, content) ELSE replace_lines)

SearchReplaceBlock(search_content, replace_content) ==
  <<"<<<<<<< SEARCH", "NL">> \o search_content \o <<"NL", "=======", "NL">>
    \o replace_content \o <<"NL", ">>>>>>> REPLACE">>

to_search_replace_format(info) ==
  IF info.diff_lines = <<>>
  THEN IF info.description # "" THEN <<info.description>>
       ELSE <<info.tool_type, ": ", info.file_path>>
  ELSE LET sides == SplitDiff(info.diff_lines, <<>>, <<>>)
       IN  SearchReplaceBlock(JoinLines(sides.search_lines), JoinLines(sides.replace_lines))

\* the two lists handed to difflib.unified_diff by the result widget
UnifiedDiffInput(diff_lines) == SplitDiff(diff_lines, <<>>, <<>>)


\* --- first tool result of a Claude snapshot ----------------------------------
(* A snapshot line is its indentation and its stripped text. "* " stands for  *)
(* the bullet of a tool header or of a reply, "L " for the result mark under  *)
(* a tool header.                                                             *)
SnapLine(indent, body) == [indent |-> indent, body |-> body]

\* re.match(r"^●\s*Bash\(", stripped)
IsBashHeader(stripped) == stripped \in {"* Bash(a)", "* Bash(b)"}

\* stripped.startswith("⎿")
IsResultLine(stripped) ==
  stripped \in {"L out1", "L out2", "L Error: Exit code 1", "L Error: Exit code 2"}

\* re.search(r"Error: Exit code (\d+)", stripped)
ExitCodeMatch(stripped) ==
  CASE stripped = "L Error: Exit code 1" -> Some(1)
    [] stripped = "L Error: Exit code 2" -> Some(2)
    [] OTHER -> None

\* re.sub(r"^⎿\s*", "", stripped)
InlineContent(stripped) ==
  CASE stripped = "L out1" -> "out1"
    [] stripped = "L out2" -> "out2"
    [] OTHER -> ""

\* the stop conditions inside a result block
IsStopLine(stripped) ==
  stripped = "" \/ stripped \in {"* Bash(a)", "* Bash(b)", "* text", ">"}

NeverSecondTool(found_first_tool) == FALSE

\* a Bash header met after the first one ends the loop
IsSecondTool(found_first_tool) == found_first_tool

FirstToolStart ==
  [exit_code |-> None, shell_output_lines |-> <<>>, in_tool_result |-> FALSE,
   found_first_tool |-> FALSE, stopped |-> FALSE]

\* one iteration of the loop over the lines
FirstToolStep(st, line) ==
  IF IsBashHeader(line.body)
  THEN IF IsSecondTool(st.found_first_tool) THEN [st EXCEPT !.stopped = TRUE]
       ELSE [st EXCEPT !.found_first_tool = TRUE]
  ELSE IF st.found_first_tool /\ IsResultLine(line.body)
  THEN IF IsSome(ExitCodeMatch(line.body))
       THEN [st EXCEPT !.in_tool_result = TRUE, !.exit_code = ExitCodeMatch(line.body)]
       ELSE IF InlineContent(line.body) # ""
       THEN [st EXCEPT !.in_tool_result = TRUE,
                       !.shell_output_lines = Append(@, <<InlineContent(line.body)>>)]
       ELSE [st EXCEPT !.in_tool_result = TRUE]
  ELSE IF st.in_tool_result
  THEN IF IsStopLine(line.body) THEN [st EXCEPT !.stopped = TRUE]
       ELSE IF line.indent >= 5
       THEN [st EXCEPT !.shell_output_lines = Append(@, <<line.body>>)]
       ELSE st
  ELSE st

RECURSIVE FirstToolLoop(_, _)
FirstToolLoop(lines, st) ==
  IF lines = <<>> \/ st.stopped THEN st
  ELSE FirstToolLoop(Tail(lines), FirstToolStep(st, lines[1]))

\* raw.strip().split("\n"): blank lines at both ends go, and so does the
\* indentation of the first line
RECURSIVE DropBlankHead(_)
DropBlankHead(lines) ==
  IF lines # <<>> /\ lines[1].body = "" THEN DropBlankHead(Tail(lines)) ELSE lines
RECURSIVE DropBlankTail(_)
DropBlankTail(lines) ==
  IF lines # <<>> /\ lines[Len(lines)].body = ""
  THEN DropBlankTail(SubSeq(lines, 1, Len(lines) - 1)) ELSE lines
StripSnapshot(lines) ==
  LET kept == DropBlankTail(DropBlankHead(lines))
  IN  IF kept = <<>> THEN <<SnapLine(0, "")>>
      ELSE <<SnapLine(0, kept[1].body)>> \o Tail(kept)

_extract_first_tool_result(raw) ==
  LET st == FirstToolLoop(StripSnapshot(raw), FirstToolStart)
  IN  [exit_code |-> st.exit_code,
       shell_output |-> IF st.shell_output_lines # <<>>
                        THEN Some(JoinLines(st.shell_output_lines)) ELSE None]

\* --- last reply of a Claude snapshot -----------------------------------------
\* a bullet line that is not a tool call: stripped.startswith("●") and neither
\* tool pattern matches
IsTextBullet(stripped) == stripped = "* text"

\* re.sub(r"^●\s*", "", stripped)
BulletText(stripped) == IF stripped = "* text" THEN "text" ELSE ""

\* tool_info of a tool call line: "name: args"
ToolLabel(stripped) ==
  CASE stripped = "* Bash(a)" -> "Bash: a"
    [] stripped = "* Bash(b)" -> "Bash: b"
    [] OTHER -> ""

\* "error" in stripped.lower()
MentionsError(stripped) == stripped \in {"L Error: Exit code 1", "L Error: Exit code 2"}

\* the summary line appended for a finished tool
ToolSummary(tool_info, tool_has_error) ==
  <<"L " \o tool_info \o (IF tool_has_error THEN " failed" ELSE " ok")>>

\* LastTextIdx that takes a tool call line for a text bullet as well
LastBulletIdx(lines) ==
  LET idxs == { i \in 1..Len(lines) : lines[i].body \in {"* Bash(a)", "* Bash(b)", "* text"} }
  IN  IF idxs = {} THEN -1 ELSE (CHOOSE i \in idxs : \A j \in idxs : j <= i) - 1

\* index (0-based) of the last text bullet, -1 when there is none
LastTextIdx(lines) ==
  LET idxs == { i \in 1..Len(lines) : IsTextBullet(lines[i].body) }
  IN  IF idxs = {} THEN -1 ELSE (CHOOSE i \in idxs : \A j \in idxs : j <= i) - 1

ResponseStart ==
  [result_lines |-> <<>>, in_response |-> FALSE, in_tool |-> FALSE,
   tool_info |-> "", tool_has_error |-> FALSE]

\* the tool that was open is summarised
FinalizeTool(st) ==
  IF st.tool_info # ""
  THEN [st EXCEPT !.result_lines = Append(@, ToolSummary(st.tool_info, st.tool_has_error)),
                  !.tool_info = ""]
  ELSE st

\* a line that is neither a tool call nor a result line, once the tool
\* output before it (if any) has ended
ResponseTextStep(st, line) ==
  IF IsTextBullet(line.body)
  THEN [st EXCEPT !.result_lines = IF BulletText(line.body) # ""
                                   THEN Append(@, <<BulletText(line.body)>>) ELSE @,
                  !.in_response = TRUE]
  ELSE IF st.in_response /\ line.body # ""
  THEN [st EXCEPT !.result_lines = Append(@, <<line.body>>)]
  ELSE st

\* one iteration of the loop over lines[last_text_idx:]
ResponseStep(st, line) ==
  IF ToolLabel(line.body) # ""
  THEN [FinalizeTool(st) EXCEPT !.tool_info = ToolLabel(line.body),
                                !.tool_has_error = FALSE, !.in_tool = TRUE]
  ELSE IF IsResultLine(line.body)
  THEN [st EXCEPT !.in_tool = TRUE,
                  !.tool_has_error = @ \/ MentionsError(line.body)]
  ELSE IF st.in_tool
  THEN LET seen == [st EXCEPT !.tool_has_error = @ \/ MentionsError(line.body)]
       IN  IF line.indent >= 5 THEN seen
           ELSE ResponseTextStep([FinalizeTool(seen) EXCEPT !.in_tool = FALSE], line)
  ELSE ResponseTextStep(st, line)

RECURSIVE ResponseLoop(_, _)
ResponseLoop(lines, st) ==
  IF lines = <<>> THEN st ELSE ResponseLoop(Tail(lines), ResponseStep(st, lines[1]))

\* the text re-attached for an exit code line
InlineExit(stripped) ==
  CASE stripped = "L Error: Exit code 1" -> "Error: Exit code 1"
    [] stripped = "L Error: Exit code 2" -> "Error: Exit code 2"
    [] OTHER -> ""

\* re.search(r"Error: Exit code\s*(\d+)", raw): the first exit code shown
\* anywhere in the capture
FirstExitCodeLine(lines) ==
  LET idxs == { i \in 1..Len(lines) : IsSome(ExitCodeMatch(lines[i].body)) }
  IN  IF idxs = {} THEN ""
      ELSE InlineExit(lines[CHOOSE i \in idxs : \A j \in idxs : i <= j].body)

\* ClaudeSessionTmux._extract_response(raw, 0): (content, last_text_idx)
_extract_response(raw) ==
  LET lines == StripSnapshot(raw)
      last_text_idx == LastTextIdx(lines)
      st == FinalizeTool(ResponseLoop(SubSeq(lines, last_text_idx + 1, Len(lines)),
                                      ResponseStart))
      reattach == FirstExitCodeLine(lines)
  IN  IF last_text_idx = -1 THEN [content |-> <<>>, last_text_idx |-> -1]
      ELSE [content |-> JoinLines(IF reattach # "" /\ st.result_lines # <<>>
                                  THEN Append(st.result_lines, <<reattach>>)
                                  ELSE st.result_lines),
            last_text_idx |-> last_text_idx]

\* stripped.startswith("●")
IsBullet(stripped) == stripped \in {"* Bash(a)", "* Bash(b)", "* text"}

\* one poll of ask or wait_response on a capture that changed (session.py
\* 141-191): the reply extracted, and the texts handed to on_update
PollOnUpdate(raw, last_marker_line, last_marker_count) ==
  LET current_lines == StripSnapshot(raw)
      extracted == _extract_response(raw)
      partial == extracted.content
      current_text_idx == extracted.last_text_idx
      current_marker_line ==
        IF current_text_idx >= 0 /\ current_text_idx < Len(current_lines)
        THEN current_lines[current_text_idx + 1].body ELSE ""
      current_marker_count ==
        Cardinality({ i \in 1..Len(current_lines) : IsBullet(current_lines[i].body) })
      is_new_message == \/ current_marker_line # last_marker_line
                        \/ current_marker_count > last_marker_count
  IN  [partial |-> partial, current_text_idx |-> current_text_idx,
       on_update |-> IF partial # <<>> /\ is_new_message
                     THEN << partial \o <<"SP", "CUR">> >> ELSE <<>>]

\* wait_response when the capture shows the ready prompt and no spinner
\* (session.py 657-666)
ClaudeWaitCompletion(raw) ==
  LET final_content == _extract_response(raw).content
      tool == _extract_first_tool_result(raw)
  IN  ClaudeResponseDict(final_content, tool.exit_code, tool.shell_output)

\* ------------------------------------------ functions of routing and parsers
\* Each action below is one call of a pure function on arguments drawn from a
\* bounded set; probe records the call, one call per behaviour.
MaxText == 4

SeqsUpTo(alphabet, n) == UNION { [1..k -> alphabet] : k \in 0..n }

Probe(fn, args, out) ==
  /\ probe' = [fn |-> fn, args |-> args, out |-> out]
  /\ UNCHANGED <<agentVars, backends, turn, worker, queue, events, call, chain,
                 backend_errors, parked, approval, poll, stream, history>>

\* user messages: words, tags in several spellings, blanks and newlines
RoutingTokens == {"SP", "NL", "hi", "@g", "@CC", "@gemIni"}

CallParseRoutingTag ==
  /\ probe = IdleProbe
  /\ \E text \in SeqsUpTo(RoutingTokens, MaxText) :
       Probe("parse_routing_tag", <<text>>, parse_routing_tag(text))

\* logs of up to MaxLog messages, ephemeral or not, and the limits callers pass
MaxLog == 3
MaxLimit == 3
LogMessages ==
  { [role |-> r, content |-> <<r, "text">>, is_ephemeral |-> e] :
      r \in {"user", TARGET_CLAUDE, TARGET_GEMINI}, e \in BOOLEAN }

\* texts handed to the parsers, of up to MaxLines lines, and the files that
\* exist when parse runs
MaxLines == 4
ClaudeLines ==
  { [wrap |-> 0, body |-> b] :
      b \in {"Bash(ls)", "Write(f.py)", "Update(f.py)", "Create file", "Bash command",
             "BOX_START", "BOX_END", "SEP", "1 + x", "3 z", "f.py", "raw"} }
    \cup { [wrap |-> w, body |-> "3 z"] : w \in 1..2 }
GeminiLines ==
  { [wrap |-> 0, body |-> b] :
      b \in {"Shell ls", "WriteFile f.py", "Edit f.py", "BOX_START", "BOX_END",
             "1 + x", "3 z", "raw"} }
    \cup { [wrap |-> w, body |-> "3 z"] : w \in 1..2 }
    \cup { [wrap |-> 2, body |-> "Shell ls"] }
ParserLines(parser) == IF parser = TARGET_CLAUDE THEN ClaudeLines ELSE GeminiLines
FileSystems == SUBSET {"f.py"}

CallParse ==
  /\ probe = IdleProbe
  /\ \E parser \in Targets, files \in FileSystems :
       \E raw_lines \in SeqsUpTo(ParserLines(parser), MaxLines) :
         Probe("parse", <<parser, raw_lines, files>>, Parse(parser, raw_lines, files))

CallBuildContext ==
  /\ probe = IdleProbe
  /\ \E msgs \in SeqsUpTo(LogMessages, MaxLog), target \in Targets, limit \in 1..MaxLimit :
       \E idx \in -1..Len(msgs) :
         LET seen == [t \in Targets |-> IF t = target THEN idx ELSE -1]
         IN  Probe("build_context", <<msgs, target, seen, limit>>,
                   build_context(msgs, target, seen, limit))

\* diff lines of the three types, in every order, with empty and equal contents
MaxDiff == 4
DiffLines == { <<t, c>> : t \in {"+", "-", " "}, c \in {<<>>, <<"a">>, <<"b">>} }

CallToSearchReplaceFormat ==
  /\ probe = IdleProbe
  /\ \E diff_lines \in SeqsUpTo(DiffLines, MaxDiff), description \in {"", "desc"} :
       LET info == ParsedToolInfo("edit", "f.py", description, diff_lines)
       IN  Probe("to_search_replace_format", <<info>>, to_search_replace_format(info))

CallToUnifiedDiff ==
  /\ probe = IdleProbe
  /\ \E diff_lines \in SeqsUpTo(DiffLines, MaxDiff) \ {<<>>} :
       Probe("_to_unified_diff", <<diff_lines>>, UnifiedDiffInput(diff_lines))

\* Claude snapshots of up to MaxSnapshot lines: Bash headers, result lines with
\* output or exit code, indented and unindented continuation lines, a reply
\* bullet and a blank line
MaxSnapshot == 5
SnapshotLines ==
  { SnapLine(0, b) : b \in {"* Bash(a)", "* Bash(b)", "* text", "L out1", "L out2",
                            "L Error: Exit code 1", "L Error: Exit code 2", "", "err1"} }
    \cup { SnapLine(5, b) : b \in {"err1", "err2"} }

CallExtractFirstToolResult ==
  /\ probe = IdleProbe
  /\ \E raw \in SeqsUpTo(SnapshotLines, MaxSnapshot) :
       Probe("_extract_first_tool_result", <<raw>>, _extract_first_tool_result(raw))

\* one poll of Claude's ask on a capture of up to MaxCapture lines, with the
\* marker line and marker count the loop remembers from the poll before
MaxCapture == 4
CallPollOnUpdate ==
  /\ probe = IdleProbe
  /\ \E raw \in SeqsUpTo(SnapshotLines, MaxCapture),
        last_marker_line \in {"", "* text"}, last_marker_count \in 0..1 :
       Probe("ask.poll", <<raw, last_marker_line, last_marker_count>>,
             PollOnUpdate(raw, last_marker_line, last_marker_count))

\* what the pane shows of one Bash command: its header, its result line and
\* possibly an indented line of output
BashBlocks(header) ==
  { <<SnapLine(0, header), SnapLine(0, r)>> \o more :
      r \in {"L out1", "L out2", "L Error: Exit code 1", "L Error: Exit code 2"},
      more \in {<<>>, <<SnapLine(5, "err1")>>, <<SnapLine(5, "err2")>>} }

\* handle_confirmation(True) for a pending Bash command of Claude whose
\* wait_response ends on the capture earlier \o approved: the scrollback of
\* an earlier command, if any, and the block of the command just approved
CallBackfillApproved ==
  /\ probe = IdleProbe
  /\ \E earlier \in {<<>>} \cup BashBlocks("* Bash(a)"), approved \in BashBlocks("* Bash(b)") :
       Probe("handle_confirmation.backfill", <<earlier, approved>>,
             BackfillFromResponse(Some(ToolInfo("shell", <<"b">>, <<>>)),
                                  ClaudeWaitCompletion(earlier \o approved)))

NextFunctions ==
  \/ CallPollOnUpdate
  \/ CallBackfillApproved
  \/ CallParseRoutingTag
  \/ CallBuildContext
  \/ CallParse
  \/ CallToSearchReplaceFormat
  \/ CallToUnifiedDiff
  \/ CallExtractFirstToolResult

SpecFunctions == Init /\ [][NextFunctions]_vars

\* ------------------------------------------------------------------ claims
\* a coordinator call has returned (no route_message is suspended)
Returned(op, outcome) == turn.pc = "idle" /\ call.op = op /\ call.outcome = outcome

AskSawConfirmation == call.result.pytype \in {"dict", "ParsedConfirmation"}

WaitSawConfirmation ==
  \/ call.result.pytype = "ParsedConfirmation"
  \/ IsDictOfType(call.result, "confirmation")

WaitSawResponse ==
  \/ call.result.pytype = "ParsedResponse"
  \/ IsDictOfType(call.result, "response")

NoLastSeen == [t \in Targets |-> -1]

\* ask returned the reply of a completed turn (not a confirmation, not the
\* timeout sentinel)
AskSawCompletion == call.result.pytype = "str" /\ call.result.value # TimeoutSentinel

\* C1: when a turn for target T ends successfully (route_message whose ask
\* completed and whose stream ended with a stop chunk, or an approved
\* handle_confirmation in the terminal case), on return
\* last_seen[T] = len(messages) - 1, whether or not a partial was streamed
C1_LastSeenAfterSuccessfulTurn ==
  ((Returned("route_message", "stop") /\ AskSawCompletion)
     \/ Returned("handle_confirmation", "terminal"))
    => last_seen[Val(call.target)] = Len(messages) - 1

\* C2: when the stream ends with finish_reason = confirmation, route_message
\* stores the pending confirmation of the target with the chunk's context and
\* returns with only the user message appended and last_seen unchanged
C2_ConfirmationStoresPendingOnly ==
  Returned("route_message", "confirmation") =>
    /\ pending_confirmation =
         Some([target |-> Val(call.target), context |-> call.result.context])
    /\ Len(messages) = Len(call.pre.messages) + 1
    /\ SubSeq(messages, 1, Len(call.pre.messages)) = call.pre.messages
    /\ messages[Len(messages)].role = "user"
    /\ last_seen = call.pre.last_seen

\* a routed turn that streamed a partial reply and then ended on a confirmation
C2_Witness ==
  /\ Returned("route_message", "confirmation")
  /\ events # <<>>
  /\ turn.full_response # <<>>

\* C3: whenever ask returned because it saw its confirmation prompt, for either
\* backend, route_message returns with that confirmation pending for the target
C3_AskConfirmationBecomesPending ==
  (turn.pc = "idle" /\ call.op = "route_message" /\ call.outcome \in {"stop", "confirmation"}
     /\ AskSawConfirmation)
    => /\ call.outcome = "confirmation"
       /\ pending_confirmation =
            Some([target |-> Val(call.target), context |-> call.result.context])

\* C4: on a routed turn that streamed a reply and ended normally, the message
\* appended for the target is the cleaned text ask returned on completion
C4_LoggedReplyIsFinalCapture ==
  (Returned("route_message", "stop") /\ AskSawCompletion /\ events # <<>>)
    => /\ messages # <<>>
       /\ messages[Len(messages)].role = Val(call.target)
       /\ messages[Len(messages)].content = CleanResponse(call.result.value)

\* C5: handle_confirmation(approved=False) on a pending confirmation leaves
\* messages and last_seen unchanged, emits no event and leaves no pending tool info
C5_RejectDiscardsToolInfo ==
  Returned("handle_confirmation", "rejected") =>
    /\ messages = call.pre.messages
    /\ last_seen = call.pre.last_seen
    /\ events = <<>>
    /\ pending_tool_info = None

\* C6: when a chain of N approvals of tools in one user turn ends with a
\* completed response, handle_confirmation has emitted N CLIToolResultEvents
\* in total and appended one history message
C6_OneToolEventPerApproval ==
  (Returned("handle_confirmation", "terminal") /\ WaitSawResponse
     /\ call.result.content # TimeoutSentinel /\ IsSome(call.pre.pending_tool_info))
    => /\ chain.tool_events = chain.approved
       /\ Len(messages) = Len(call.pre.messages) + 1

\* C7: when wait_response reports another confirmation, for either backend,
\* handle_confirmation stores it as the new pending confirmation of the same
\* target, emits the completed tool's CLIToolResultEvent and then the notice,
\* and leaves messages and last_seen unchanged
C7_ChainedConfirmationStored ==
  (turn.pc = "idle" /\ call.op = "handle_confirmation" /\ call.outcome \in {"chained", "terminal"}
     /\ WaitSawConfirmation)
    => /\ pending_confirmation =
            Some([target |-> Val(call.target), context |-> call.result.context])
       /\ events # <<>>
       /\ events[Len(events)] = AssistantEvent(AnotherConfirmationNotice)
       /\ (IsSome(call.pre.pending_tool_info) => events[1].type = "CLIToolResultEvent")
       /\ messages = call.pre.messages
       /\ last_seen = call.pre.last_seen

\* C8: when wait_response reports a completed response with non-empty cleaned
\* text c, for either backend, handle_confirmation appends one message of the
\* target whose content is c, a blank line and the action contexts (c alone when
\* there are none), points last_seen[target] at it and emits one AssistantEvent c
C8_TerminalResponseLogged ==
  LET target == Val(call.target)
      c == Strip(CleanShellMarkers(call.result.content))
      contexts == IF IsSome(pending_tool_info)
                  THEN Append(call.pre.action_contexts,
                              _build_action_context(Val(pending_tool_info), target))
                  ELSE call.pre.action_contexts
      history_content == IF contexts # <<>>
                         THEN c \o <<"NL", "NL">> \o Join(contexts, <<"NL", "NL">>)
                         ELSE c
  IN  (turn.pc = "idle" /\ call.op = "handle_confirmation"
         /\ call.outcome \in {"chained", "terminal"} /\ WaitSawResponse
         /\ call.result.content # TimeoutSentinel /\ c # <<>>)
        => /\ messages = Append(call.pre.messages, Message(target, history_content))
           /\ last_seen[target] = Len(messages) - 1
           /\ events = <<AssistantEvent(c)>>

\* C9: route_message with no target argument and no routing tag in the input
\* returns with no event emitted, messages, last_seen and the pending
\* confirmation unchanged, and no adapter method called
C9_NoTargetIsNoOp ==
  Returned("route_message", "no_target") =>
    /\ events = <<>>
    /\ messages = call.pre.messages
    /\ last_seen = call.pre.last_seen
    /\ pending_confirmation = call.pre.pending_confirmation
    /\ call.adapter = <<>>
    /\ worker.pc = "idle"

\* an untagged input arrives while a history exists and a confirmation is pending
C9_Witness ==
  /\ Returned("route_message", "no_target")
  /\ messages # <<>>
  /\ pending_confirmation # None

\* C10: clear_history leaves messages empty, both last_seen entries at -1 and
\* the action-context buffer empty
C10_ClearHistoryResets ==
  Returned("clear_history", "returned") =>
    /\ messages = <<>>
    /\ last_seen = NoLastSeen
    /\ action_contexts = <<>>

\* clear_history called on a history both backends have replied in
C10_Witness ==
  /\ Returned("clear_history", "returned")
  /\ call.pre.messages # <<>>
  /\ \A t \in Targets : call.pre.last_seen[t] >= 0

\* C11: in every reachable state, whatever the order and overlap of
\* route_message, handle_confirmation and clear_history, each backend's
\* last_seen is at least -1 and less than the length of messages
C11_LastSeenInRange ==
  \A t \in Targets : -1 <= last_seen[t] /\ last_seen[t] < Len(messages)

\* a turn has logged its reply while the turn of another task is still in flight
C11_Witness ==
  /\ Returned("route_message", "stop")
  /\ parked.turn.pc = "streaming"
  /\ \E t \in Targets : last_seen[t] >= 0 /\ last_seen[t] = Len(messages) - 1

\* C12: when ask's polling deadline expires during a routed turn, the timeout
\* sentinel is emitted as an event of the turn and appended to messages as the
\* target's message
C12_TimeoutSentinelIsTurnOutput ==
  (Returned("route_message", "stop") /\ call.result = StrResult(TimeoutSentinel))
    => /\ \E i \in 1..Len(events) : events[i] = AssistantEvent(TimeoutSentinel)
       /\ messages # <<>>
       /\ messages[Len(messages)] = Message(Val(call.target), TimeoutSentinel)

\* C13: __aenter__ returns however the two sessions start, and afterwards each
\* backend either has its handle and no entry in _backend_errors, or has no
\* handle and its error text in _backend_errors
C13_StartupToleratesFailure ==
  /\ call.op = "__aenter__" => call.outcome = "returned"
  /\ call.op # "__init__" =>
       \A t \in Targets : \/ (backends[t] = "up" /\ backend_errors[t] = None)
                           \/ (backends[t] = "none" /\ IsSome(backend_errors[t]))

\* __aenter__ has returned with the tmux binary missing for one session while
\* the other session started
C13_Witness ==
  /\ call.op = "__aenter__"
  /\ \E t \in Targets : backend_errors[t] = Some(ErrorText("FileNotFoundError"))
  /\ \E t \in Targets : backends[t] = "up"

\* C14: a message routed to a backend that failed at startup makes
\* route_message yield an error event and return without raising
C14_FailedBackendYieldsErrorEvent ==
  (turn.pc = "idle" /\ call.op = "route_message" /\ IsSome(call.target)
     /\ IsSome(backend_errors[Val(call.target)]))
    => /\ call.outcome # "raised"
       /\ events # <<>>

\* C15: the coordinator drives one backend operation at a time: no
\* route_message is in its stream, and no session.ask is polling, while the
\* route_message of another task is
C15_OneTurnAtATime ==
  /\ ~(turn.pc = "streaming" /\ parked.turn.pc = "streaming")
  /\ ~(worker.pc = "polling" /\ parked.worker.pc = "polling")

\* C16: from the cancellation of a streaming route_message on, the steps of
\* that turn (the cancellation itself, the polls and the return of its
\* session.ask) append no message and leave last_seen as it is
C16_CancelledTurnLogsNothing ==
  [][((turn.pc = "cancelled" \/ turn'.pc = "cancelled") /\ parked' = parked)
       => (messages' = messages /\ last_seen' = last_seen)]_vars

\* a turn cancelled after it had streamed a partial reply, whose session.ask
\* has since returned a completed reply
C16_Witness ==
  /\ turn.pc = "cancelled"
  /\ turn.full_response # <<>>
  /\ worker.pc = "done"
  /\ worker.result.pytype = "str"
  /\ worker.result.value # TimeoutSentinel

\* C18: in ask and wait_response of both adapters run with on_update, a poll
\* whose capture equals the capture of the previous poll of the same call
\* calls no parser and no on_update
C18_UnchangedCaptureIsSkipped ==
  (poll.prev # None /\ poll.prev = poll.capture /\ ~poll.deadline)
    => (~poll.parsed /\ poll.put = None)

\* Gemini's wait_response has polled the same capture, with a reply in it,
\* twice in a row
C18_Witness ==
  /\ poll.method = "wait_response"
  /\ poll.w.backend = TARGET_GEMINI
  /\ poll.prev # None
  /\ poll.prev = poll.capture
  /\ Val(poll.capture).text # <<>>

\* C19: in the polling loops of both adapters, a poll whose capture has the
\* reply-marker line and the reply-bullet count of the previous poll's capture
\* hands nothing to on_update
C19_SameMarkerEmitsNothing ==
  (poll.prev # None /\ ~poll.deadline
     /\ MarkerLine(Val(poll.prev)) = MarkerLine(Val(poll.capture))
     /\ Val(poll.prev).bullets = Val(poll.capture).bullets)
    => poll.put = None

\* the call returned a completed response: not a confirmation, not the
\* timeout sentinel, not an exception
PollCompleted ==
  /\ poll.pc = "done"
  /\ ~poll.deadline
  /\ \/ poll.w.result.pytype \in {"str", "ParsedResponse"}
     \/ IsDictOfType(poll.w.result, "response")

\* C20: ask and wait_response of both adapters return a completed response
\* only on a capture that shows the ready prompt and no spinner glyph
C20_CompletionNeedsPromptAndNoSpinner ==
  PollCompleted => (Val(poll.capture).prompt /\ ~Val(poll.capture).spinner)

\* Claude's wait_response has returned a completed response with a reply in
\* it, on its second poll
C20_Witness ==
  /\ PollCompleted
  /\ poll.method = "wait_response"
  /\ poll.w.backend = TARGET_CLAUDE
  /\ poll.w.result.content # <<>>
  /\ poll.prev # None

\* C17: a request gets the decision posted for it: a granted / rejected message
\* posted for a request that is already decided changes no decision and
\* resolves no later request
C17_DecisionBelongsToRequest ==
  /\ \A i \in 1..Len(approval.decided) :
       approval.decided[i].posted_for = approval.decided[i].request
  /\ (approval.pending # None /\ Val(approval.pending).done)
       => Val(approval.pending).posted_for = Some(Val(approval.pending).id)

\* whitespace-separated words of a text, each the sequence of its pieces
RECURSIVE WordsOf(_)
WordsOf(s) ==
  LET t == LStrip(s, Whitespace)
      blanks == { i \in 1..Len(t) : t[i] \in Whitespace }
      n == IF blanks = {} THEN Len(t) + 1 ELSE CHOOSE i \in blanks : \A j \in blanks : i <= j
  IN  IF t = <<>> THEN <<>>
      ELSE <<SubSeq(t, 1, n - 1)>> \o WordsOf(SubSeq(t, n, Len(t)))

\* a word that spells @cc, @claude, @g or @gemini in some letter case
IsTagWord(word) ==
  Len(word) = 1 /\ word[1] \in {"@cc", "@CC", "@claude", "@g", "@G", "@gemini", "@GEMINI"}

TagWordTarget(word) ==
  IF word[1] \in {"@cc", "@CC", "@claude"} THEN TARGET_CLAUDE ELSE TARGET_GEMINI

\* C21: parse_routing_tag returns the target of the first word that spells a
\* routing tag (in any letter case) and the other words joined by single
\* blanks, tag words removed; a text with no such word comes back stripped,
\* with target None
C21_TagIsWholeWord ==
  probe.fn = "parse_routing_tag" =>
    LET text == probe.args[1]
        words == WordsOf(text)
        tags == SelectSeq(words, IsTagWord)
        rest == SelectSeq(words, LAMBDA w : ~IsTagWord(w))
    IN  IF tags = <<>>
        THEN probe.out = [target |-> None, clean |-> Strip(text)]
        ELSE probe.out = [target |-> Some(TagWordTarget(tags[1])),
                          clean |-> Join(rest, <<"SP">>)]

\* the messages the context of a build_context call must show: those with
\* index above last_seen[target] and among the last `limit` of the log's
\* unseen part, ephemeral ones left out, in log order
UnseenOfProbe ==
  LET msgs == probe.args[1]
      idx == probe.args[3][probe.args[2]]
      limit == probe.args[4]
      indexed == [i \in 1..Len(msgs) |-> [index |-> i - 1, message |-> msgs[i]]]
  IN  SelectSeq(indexed, LAMBDA e : /\ e.index > idx
                                    /\ e.index >= Len(msgs) - limit
                                    /\ ~e.message.is_ephemeral)

\* C22: build_context(messages, target, last_seen, limit) is the header
\* followed by one labelled line for each non-ephemeral message among the
\* last `limit` messages with index above last_seen[target], in log order, and
\* the empty string when there is no such message
C22_ContextIsUnseenCapped ==
  probe.fn = "build_context" =>
    LET shown == UnseenOfProbe
        shown_lines == [i \in 1..Len(shown) |->
                          <<_role_to_label(shown[i].message.role), "SP">>
                            \o shown[i].message.content]
    IN  IF shown = <<>> THEN probe.out = <<>>
        ELSE probe.out = <<"[Chat context, reply to last USER message]", "NL">>
                           \o Join(shown_lines, <<"NL", "NL">>)

\* a log of three messages of which the target saw the first, called with
\* limit 1 while the second is ephemeral: cursor, cap and filter all act
C22_Witness ==
  /\ probe.fn = "build_context"
  /\ Len(probe.args[1]) = 3
  /\ probe.args[3][probe.args[2]] = 0
  /\ probe.args[4] = 2
  /\ probe.args[1][2].is_ephemeral
  /\ ~probe.args[1][3].is_ephemeral
  /\ probe.out # <<>>

\* C23: the prompt route_message hands to ask is "USER asks " and the clean
\* message when the log before the call holds nothing the target has not
\* seen, and otherwise the context built from the log before the call, a
\* newline, "USER asks " and the clean message; the user message the call
\* appends is in no line of the context
C23_PromptIsContextThenUserAsks ==
  [][(turn.pc = "idle" /\ turn'.pc = "streaming" /\ parked' = parked) =>
       LET target == turn'.target
           clean_msg == messages'[Len(messages')].content
           context == build_context(messages, target, last_seen, ContextLimit)
           prompt == call'.adapter[1].arg
       IN  /\ messages' = Append(messages, Message("user", clean_msg))
           /\ prompt = IF context = <<>> THEN <<"USER asks", "SP">> \o clean_msg
                       ELSE context \o <<"NL", "USER asks", "SP">> \o clean_msg]_vars

\* route_message has called ask on a log that held an unseen message: the
\* prompt starts with the context header
C23_Witness ==
  /\ call.op = "route_message"
  /\ call.adapter # <<>>
  /\ call.pre.messages # <<>>
  /\ call.adapter[1].arg[1] = "[Chat context, reply to last USER message]"
  /\ call.adapter[1].arg[Len(call.adapter[1].arg) - 2] = "USER asks"

IsPrefix(s, t) == Len(s) <= Len(t) /\ SubSeq(t, 1, Len(s)) = s

\* C24: every step of a coordinator operation other than clear_history keeps
\* the log it found as a prefix of the log it leaves: entries are neither
\* changed, removed nor reordered
C24_MessagesAppendOnly ==
  [][IsPrefix(messages, messages') \/ (call'.op = "clear_history" /\ messages' = <<>>)]_vars

\* handle_confirmation has appended the reply to a log that already held the
\* user message
C24_Witness ==
  /\ Returned("handle_confirmation", "terminal")
  /\ call.pre.messages # <<>>
  /\ Len(messages) = Len(call.pre.messages) + 1
  /\ IsPrefix(call.pre.messages, messages)

\* parse returned a tool of one of the given types
ParsedToolOfType(types) ==
  /\ probe.fn = "parse"
  /\ probe.out.tool_info # None
  /\ Val(probe.out.tool_info).tool_type \in types

\* C25: the write_file or edit tool that parse returns has is_new_file true
\* exactly when its file_path does not exist when parse runs, whatever the
\* tool type; the same text parsed before and after the file is created
\* gives true, then false
C25_IsNewFileIffPathMissing ==
  ParsedToolOfType({"write_file", "edit"}) =>
    LET tool == Val(probe.out.tool_info)
    IN  tool.is_new_file = (tool.file_path \notin probe.args[3])

\* an edit tool was parsed while its file existed: is_new_file is false
C25_Witness ==
  /\ ParsedToolOfType({"edit"})
  /\ Val(probe.out.tool_info).file_path \in probe.args[3]
  /\ ~Val(probe.out.tool_info).is_new_file

\* C28: a tool of type shell returned by either parser has no diff lines,
\* whatever lines follow its header
C28_ShellHasNoDiffLines ==
  ParsedToolOfType({"shell"}) => Val(probe.out.tool_info).diff_lines = <<>>

\* C26: the search side rebuilt from diff_lines is the subsequence of the
\* removed and neutral lines and the replace side the subsequence of the added
\* and neutral lines, each in diff order, both in the search/replace block and
\* in the lists handed to the unified diff.
KeptLines(diff_lines, dropped) ==
  LET kept == SelectSeq(diff_lines, LAMBDA l : l[1] # dropped)
  IN  [i \in 1..Len(kept) |-> kept[i][2]]
C26_SidesAreSubsequences ==
  /\ (probe.fn = "to_search_replace_format" /\ probe.args[1].diff_lines # <<>>) =>
       probe.out = SearchReplaceBlock(JoinLines(KeptLines(probe.args[1].diff_lines, "+")),
                                      JoinLines(KeptLines(probe.args[1].diff_lines, "-")))
  /\ probe.fn = "_to_unified_diff" =>
       /\ probe.out.search_lines = KeptLines(probe.args[1], "+")
       /\ probe.out.replace_lines = KeptLines(probe.args[1], "-")
C26_Witness ==
  /\ probe.fn = "_to_unified_diff"
  /\ probe.args[1] = << <<"+", <<"a">> >>, <<" ", <<"b">> >>, <<"-", <<"a">> >>, <<"+", <<"b">> >> >>
  /\ probe.out.search_lines = << <<"b">>, <<"a">> >>
  /\ probe.out.replace_lines = << <<"a">>, <<"b">>, <<"b">> >>

\* C27: on a snapshot with two Bash tool calls the extracted exit code and
\* output are those of the lines before the second Bash header, so that no line
\* of the second tool is included; a snapshot with no Bash tool yields
\* (None, None).
BashHeaderIdxs(raw) == { i \in 1..Len(raw) : raw[i].body \in {"* Bash(a)", "* Bash(b)"} }
SecondBashIdx(raw) ==
  CHOOSE i \in BashHeaderIdxs(raw) :
    Cardinality({ j \in BashHeaderIdxs(raw) : j < i }) = 1
C27_FirstToolResultOnly ==
  probe.fn = "_extract_first_tool_result" =>
    LET raw == probe.args[1]
        headers == BashHeaderIdxs(raw)
    IN  /\ headers = {} => probe.out = [exit_code |-> None, shell_output |-> None]
        /\ Cardinality(headers) >= 2 =>
             probe.out = _extract_first_tool_result(SubSeq(raw, 1, SecondBashIdx(raw) - 1))
C27_Witness ==
  /\ probe.fn = "_extract_first_tool_result"
  /\ probe.args[1] = <<SnapLine(0, "* Bash(a)"), SnapLine(0, "L Error: Exit code 1"),
                       SnapLine(5, "err1"), SnapLine(0, "* Bash(b)"), SnapLine(0, "L out2")>>
  /\ probe.out = [exit_code |-> Some(1), shell_output |-> Some(<<"err1">>)]

DecisionKeys(adapter) == SelectSeq(adapter, LAMBDA c : c.fn = "respond_confirmation")
C30_AnsweredOnce ==
  call.op = "handle_confirmation" =>
    IF call.pre.pending_confirmation = None
    THEN /\ call.adapter = <<>>
         /\ events = <<>>
         /\ Snapshot = call.pre
    ELSE /\ Len(DecisionKeys(call.adapter)) = 1
         /\ DecisionKeys(call.adapter)[1].backend = Val(call.pre.pending_confirmation).target
         /\ call.outcome # "chained" => pending_confirmation = None
C30_NoPendingChangesNothing ==
  [][(call'.op = "handle_confirmation" /\ call'.outcome = "no_pending")
       => UNCHANGED <<agentVars, backends, turn, worker, queue>>]_vars
C30_OneDecisionKey == []C30_AnsweredOnce /\ C30_NoPendingChangesNothing
C30_Witness ==
  /\ Returned("handle_confirmation", "rejected")
  /\ call.pre.pending_confirmation # None
  /\ call.adapter = <<[backend |-> Val(call.pre.pending_confirmation).target,
                       fn |-> "respond_confirmation", arg |-> <<"no">>]>>
  /\ pending_confirmation = None

\* C31: when route_message asks backend U, every message of the other backend
\* T that carries an action-context block, that was logged after the last
\* turn for U began and that has fewer than 5 messages after it, has its
\* block in the prompt sent to U.
ActionHeaders(target) ==
  { _build_action_context(Val(ParseTool(c)), target)[1] :
      c \in { x \in Contexts : ParseTool(x) # None } }
HeaderIdx(content, target) ==
  CHOOSE k \in 1..Len(content) : content[k] \in ActionHeaders(target)
HasActionBlock(msg) ==
  /\ msg.role \in Targets
  /\ \E k \in 1..Len(msg.content) : msg.content[k] \in ActionHeaders(msg.role)
ActionBlock(msg) == SubSeq(msg.content, HeaderIdx(msg.content, msg.role), Len(msg.content))
Contains(text, part) ==
  \E k \in 1..(Len(text) - Len(part) + 1) : SubSeq(text, k, k + Len(part) - 1) = part
UserTextFor(target) == IF target = TARGET_CLAUDE THEN <<"hello">> ELSE <<"hi">>
HandedOver(log, i, target) ==
  /\ HasActionBlock(log[i])
  /\ log[i].role # target
  /\ Len(log) - i < ContextLimit
  /\ \A j \in (i + 1)..Len(log) :
       ~(log[j].role = "user" /\ log[j].content = UserTextFor(target))
C31_OtherBackendReadsActionContext ==
  (call.op = "route_message" /\ call.adapter # <<>>) =>
    \A i \in 1..Len(call.pre.messages) :
      HandedOver(call.pre.messages, i, Val(call.target)) =>
        Contains(call.adapter[1].arg, ActionBlock(call.pre.messages[i]))

\* C32: complete_streaming yields the partial chunks in the order the polling
\* thread called on_update and loses none of them: at any moment the partial
\* chunks yielded so far are the first texts handed to on_update, and once
\* the generator has finished they are all of them, followed by exactly one
\* terminal chunk (stop or confirmation) that is the last chunk yielded.
IsPartialChunk(chunk) == chunk.finish_reason = "None"

PartialsYielded == SelectSeq(stream.yielded, IsPartialChunk)

C32_PartialsInOrderNoneLost ==
  /\ Len(PartialsYielded) <= Len(stream.sent)
  /\ \A i \in 1..Len(PartialsYielded) : PartialsYielded[i].content = stream.sent[i]
  /\ stream.pc = "done" =>
       /\ Len(PartialsYielded) = Len(stream.sent)
       /\ Len(stream.yielded) = Len(stream.sent) + 1
       /\ ~IsPartialChunk(stream.yielded[Len(stream.yielded)])

\* the part of C32 the loop does keep: order, and one terminal chunk at the end
C32_OrderAndOneTerminal ==
  /\ Len(PartialsYielded) <= Len(stream.sent)
  /\ \E keep \in SUBSET (1..Len(stream.sent)) :
       /\ Cardinality(keep) = Len(PartialsYielded)
       /\ \A i \in 1..Len(PartialsYielded) :
            \E k \in keep : /\ PartialsYielded[i].content = stream.sent[k]
                            /\ Cardinality({j \in keep : j < k}) = i - 1
  /\ \A i \in 1..Len(stream.yielded) :
       ~IsPartialChunk(stream.yielded[i]) => i = Len(stream.yielded) /\ stream.pc = "done"
  /\ stream.pc = "done" => ~IsPartialChunk(stream.yielded[Len(stream.yielded)])

NoTextBullet(raw) == \A i \in 1..Len(raw) : raw[i].body # "* text"

C36_NoBulletNoPartial ==
  (probe.fn = "ask.poll" /\ NoTextBullet(probe.args[1])) =>
    /\ probe.out.partial = <<>>
    /\ probe.out.current_text_idx = -1
    /\ probe.out.on_update = <<>>

C36_Witness ==
  /\ probe.fn = "ask.poll"
  /\ probe.args[1] = <<SnapLine(0, "* Bash(a)"), SnapLine(0, "L out1"), SnapLine(0, "err1")>>
  /\ probe.out.current_text_idx = -1
  /\ probe.out.on_update = <<>>

\* C34: every AssistantEvent route_message emits for a text chunk carries the
\* latest reply without the trailing block cursor and without the shell-marker
\* trailer; no event has empty content, and no event is emitted for a chunk
\* whose cleaned content equals that of the chunk accepted before it.
\* The loop body of route_message runs on the chunk at the head of the queue.
StreamStep ==
  /\ turn.pc = "streaming"
  /\ queue # <<>>
  /\ Head(queue).kind = "text"
  /\ queue' = Tail(queue)

EventEmitted == Len(events') = Len(events) + 1

HasToken(text, toks) == \E i \in 1..Len(text) : text[i] \in toks

\* the chunk without the cursor the adapter appended: its last two tokens
WithoutCursor(text) == SubSeq(text, 1, Len(text) - 2)

\* the text before the shell marker
RECURSIVE BeforeMarker(_)
BeforeMarker(text) ==
  IF text = <<>> \/ text[1] = "SHELL" THEN <<>> ELSE <<text[1]>> \o BeforeMarker(Tail(text))

\* as stated: trailing cursor and all trailing whitespace are gone
C34_EventIsStrippedReply ==
  [][(StreamStep /\ EventEmitted) =>
       LET content == events'[Len(events')].content
       IN  /\ content # <<>>
           /\ content[Len(content)] \notin Whitespace \cup {"CUR"}
           /\ ~HasToken(content, {"SHELL"})]_vars

\* as the code has it: the event carries the chunk up to the cursor and up to
\* the shell marker, exit-code trailer removed; the newline that joined the
\* marker to the reply stays.  It is not blank, and a chunk that differs from
\* the accepted one only in its cursor yields no event.
C34_EventIsChunkWithoutCursorAndMarker ==
  [][StreamStep =>
       LET chunk == Head(queue).text
       IN  /\ EventEmitted =>
                LET content == events'[Len(events')].content
                IN  /\ Strip(content) # <<>>
                    /\ content[Len(content)] \notin {"SP", "CUR"}
                    /\ ~HasToken(content, {"SHELL", "EXIT0", "EXIT1"})
                    /\ content = SelectSeq(BeforeMarker(WithoutCursor(chunk)),
                                           LAMBDA tok : tok \notin {"EXIT0", "EXIT1"})
           /\ ~EventEmitted => events' = events
           /\ WithoutCursor(chunk) = WithoutCursor(turn.full_response) => ~EventEmitted]_vars

C34_Witness ==
  /\ turn.pc = "streaming"
  /\ HasToken(turn.full_response, {"SHELL"})
  /\ events # <<>>
  /\ events[Len(events)] = AssistantEvent(<<"a", "NL">>)

\* C35: every ask and wait_response of both adapters terminates.  A call that
\* is polling eventually ends; it ends on a capture that shows a confirmation
\* or a completed turn, or because the deadline expired, and then it returns
\* the timeout sentinel.  An iteration that skips an unchanged capture counts
\* against the deadline like any other.
IsTimeoutResult(result) ==
  \/ result = StrResult(TimeoutSentinel)
  \/ result \in {WaitTimeout(TARGET_CLAUDE), WaitTimeout(TARGET_GEMINI)}

C35_EndsAsClaimed ==
  poll.pc = "done" =>
    /\ poll.deadline => IsTimeoutResult(poll.w.result)
    /\ ~poll.deadline =>
         /\ poll.capture # None
         /\ \/ StatusOf(Val(poll.capture)) \in {"confirm", "ready"}
            \/ poll.w.result = Raised("IndexError")

CallSawConfirmation ==
  \/ call.op = "route_message" /\ AskSawConfirmation
  \/ call.op = "handle_confirmation" /\ WaitSawConfirmation

PendingFor(pending, target) == IsSome(pending) /\ Val(pending).target = target

AdapterCallReturned ==
  /\ turn.pc = "idle"
  /\ \/ call.op = "route_message" /\ call.outcome \in {"stop", "confirmation"}
     \/ call.op = "handle_confirmation" /\ call.outcome \in {"chained", "terminal"}

C37_PendingIffUnansweredConfirmation ==
  AdapterCallReturned =>
    /\ PendingFor(pending_confirmation, Val(call.target)) <=> CallSawConfirmation
    /\ \A other \in Targets \ {Val(call.target)} :
         PendingFor(call.pre.pending_confirmation, other) =>
           PendingFor(pending_confirmation, other)

\* the same for Gemini alone, whose confirmations do become pending
C37_GeminiPendingIffUnanswered ==
  (AdapterCallReturned /\ call.target = Some(TARGET_GEMINI)) =>
    (PendingFor(pending_confirmation, TARGET_GEMINI) <=> CallSawConfirmation)

\* C38: between two clear_history calls last_seen[T] never decreases, for
\* either backend, whatever the interleaving of route_message turns and
\* handle_confirmation: every step leaves each cursor where it was or further
\* on, except the step of clear_history, which resets both.
C38_LastSeenNeverDecreases ==
  [][\/ \A t \in Targets : last_seen'[t] >= last_seen[t]
     \/ call'.op = "clear_history" /\ last_seen' = NoLastSeen]_vars

\* a cursor that had already been set was moved further on
C38_Witness ==
  /\ turn.pc = "idle"
  /\ call.op \in {"route_message", "handle_confirmation"}
  /\ \E t \in Targets : /\ call.pre.last_seen[t] >= 0
                        /\ last_seen[t] > call.pre.last_seen[t]

\* C39: when add_message trims the excess oldest messages, no cursor comes to
\* cover a message its backend had not seen: a cursor of -1 stays -1, a cursor
\* c becomes c - excess, or -1 when c < excess; and the object never holds more
\* than max_messages messages after add_message.
AddMessageStep == history.op # "none" /\ history'.op = "add_message"

ExcessOf(h) == Max(0, Len(h.messages) + 1 - h.max_messages)

\* the cursor the claim gives after a trim: -1 for a backend that has seen
\* none of the messages left
AdjustKeepsUnseen(cursor, excess) == IF cursor - excess < 0 THEN -1 ELSE cursor - excess

C39_TrimKeepsCursorsHonest ==
  [][AddMessageStep =>
       /\ Len(history'.messages) <= history.max_messages
       /\ \A ai \in Targets :
            history'.last_seen[ai] =
              AdjustKeepsUnseen(history.last_seen[ai], ExcessOf(history))]_vars

\* the part on the length alone
C39_LengthWithinMax ==
  history.op # "none" => Len(history.messages) <= history.max_messages

\* C40: at most one worker thread runs ask or wait_response against a session
\* at any time: when a turn has been cancelled, no polling worker of that turn
\* is still running while the ask of a later turn runs on the same session.
OrphanPolling(frame, other) ==
  /\ frame.turn.pc = "cancelled"
  /\ frame.worker.pc = "polling"
  /\ other.turn.pc = "streaming"
  /\ other.worker.pc = "polling"
  /\ other.worker.backend = frame.worker.backend

RunningFrame == [turn |-> turn, worker |-> worker]

C40_NoWorkerOutlivesCancelledTurn ==
  /\ ~OrphanPolling(parked, RunningFrame)
  /\ ~OrphanPolling(RunningFrame, parked)

====
